---- MODULE Spec2Model ----
(***************************************************************************)
(* Brew-and-Bite cafe management system: the layered implementation under  *)
(* src/src (DAOs, services, AuthService) over one shared SQLAlchemy        *)
(* session.                                                                *)
(*                                                                         *)
(* The database is modelled twice: `sess` is what the shared session sees  *)
(* (committed rows plus everything flushed or pending in the open          *)
(* transaction), `committed` is what is durably in the database file.  A   *)
(* DAO call that reaches session.commit() copies sess into committed; a    *)
(* call that raises before its commit leaves its changes in sess, because  *)
(* no service or DAO of the layered implementation ever calls rollback().  *)
(* For the same reason a commit whose flush fails leaves the session        *)
(* deactivated for good (sess.is_active FALSE): every later statement on   *)
(* it raises PendingRollbackError.                                         *)
(*                                                                         *)
(* Money is counted in whole currency units (integers); datetimes are      *)
(* integer minutes.                                                        *)
(***************************************************************************)
EXTENDS Integers, Sequences, FiniteSets, TLC

(* ------------------------------ bounds -------------------------------- *)
MaxStock == 1
MaxQty == 1
MaxLines == 2
MaxConcLines == 1
MaxSales == 1
MaxAudit == 5
MaxNow == 61
MaxRoleChanges == 1
MaxUserChanges == 2
MaxItemChanges == 2
MaxStockMoves == 1
MaxExpenses == 2
MaxInstances == 4
MaxHashes == 2

(* ----------------------------- constants ------------------------------ *)
None == -1
\* None where the other values are strings
NoText == "None"
NoSuchId == 99
ActingUser == 1

\* the two inventory items of the seeded database and their unit costs; the
\* sales screen charges an item's unit cost as the unit price of a line
ItemIds == {1, 2}
UnitCost == (1 :> 3) @@ (2 :> 2)

VARIABLES sess, committed, ghosts, lastOp, active_sessions, now, proc, write_lock,
          provider

vars == <<sess, committed, ghosts, lastOp, active_sessions, now, proc, write_lock, provider>>

(* ------------------------------ helpers ------------------------------- *)
Max(S) == CHOOSE x \in S : \A y \in S : y <= x

\* SQLite INTEGER PRIMARY KEY: a new row gets the largest id in the table + 1
NextId(ids) == IF ids = {} THEN 1 ELSE Max(ids) + 1

Ids(rows) == {r.id : r \in rows}

RECURSIVE SumSeq(_, _)
SumSeq(f, k) == IF k = 0 THEN 0 ELSE f[k] + SumSeq(f, k - 1)

RECURSIVE SumSet(_)
SumSet(rows) ==
    IF rows = {} THEN 0
    ELSE LET r == CHOOSE x \in rows : TRUE
         IN r.quantity * r.unit_price + SumSet(rows \ {r})

RECURSIVE QtySet(_)
QtySet(rows) ==
    IF rows = {} THEN 0
    ELSE LET r == CHOOSE x \in rows : TRUE
         IN r.quantity + QtySet(rows \ {r})

\* quantity requested for inventory item i by the first k entries of a list
RECURSIVE QtyFor(_, _, _)
QtyFor(items, i, k) ==
    IF k = 0 THEN 0
    ELSE (IF items[k].inventory_item_id = i THEN items[k].quantity ELSE 0)
         + QtyFor(items, i, k - 1)

\* the quantity a list of sale lines asks of every stocked item
RequestedOf(items) == [i \in ItemIds |-> QtyFor(items, i, Len(items))]

(* --------------------------- audit log rows --------------------------- *)
AuditLog(user_id, action, table_name, record_id) ==
    [user_id |-> user_id, action |-> action,
     table_name |-> table_name, record_id |-> record_id]

(* ------------------------- session and commit ------------------------- *)
\* NOT NULL columns of the schema that the DAOs can leave empty
NotNullHolds(s) ==
    /\ \A k \in 1..Len(s.audit_logs) : s.audit_logs[k].user_id # None
    /\ \A k \in 1..Len(s.inv_txns) : s.inv_txns[k].inventory_item_id # None

\* the UNIQUE columns users.username and users.email
UniqueHolds_off(s) == TRUE

UniqueHolds(s) ==
    \A u, v \in DOMAIN s.users :
        u # v => /\ s.users[u].username # s.users[v].username
                 /\ s.users[u].email # s.users[v].email

CommitOk(s) == NotNullHolds(s) /\ UniqueHolds(s)

\* session.commit(): flush everything pending; an IntegrityError during the
\* flush rolls the whole transaction back, is re-raised, and leaves the
\* session waiting for a rollback() that only session_scope would issue
Commit(s) ==
    IF CommitOk(s)
    THEN /\ sess' = s
         /\ committed' = s
    ELSE /\ sess' = [committed EXCEPT !.is_active = FALSE]
         /\ committed' = committed

\* what a call gets on the first statement it sends through a deactivated
\* session: sqlalchemy.exc.PendingRollbackError
PendingRollbackError == "PendingRollbackError"

Raised(op) == op @@ [ok |-> FALSE, error |-> PendingRollbackError]

(* ----------------------------- validators ----------------------------- *)
validate_quantity(q) == q >= 0

validate_amount(a) == a > 0

\* the characters of the texts the calls present
Lower == {"a", "b", "c", "d", "e", "f", "g", "h", "i", "j", "k", "l", "m",
          "n", "o", "p", "q", "r", "s", "t", "u", "v", "w", "x", "y", "z"}
Upper == {"A", "B", "C", "D", "E", "F", "G", "H", "I", "J", "K", "L", "M",
          "N", "O", "P", "Q", "R", "S", "T", "U", "V", "W", "X", "Y", "Z"}
Digits == {"0", "1", "2", "3", "4", "5", "6", "7", "8", "9"}

Chars ==
    ("staff_test" :> <<"s","t","a","f","f","_","t","e","s","t">>) @@
    ("new_user" :> <<"n","e","w","_","u","s","e","r">>) @@
    ("ab" :> <<"a","b">>) @@
    ("staff@test.com" :> <<"s","t","a","f","f","@","t","e","s","t",".","c","o","m">>) @@
    ("new@test.com" :> <<"n","e","w","@","t","e","s","t",".","c","o","m">>) @@
    ("bad-email" :> <<"b","a","d","-","e","m","a","i","l">>) @@
    ("Password1" :> <<"P","a","s","s","w","o","r","d","1">>) @@
    ("password" :> <<"p","a","s","s","w","o","r","d">>) @@
    ("staff123" :> <<"s","t","a","f","f","1","2","3">>)

Letters == Lower \cup Upper
WordChars == Letters \cup Digits \cup {"_"}
EmailLocalChars == Letters \cup Digits \cup {".", "_", "%", "+", "-"}
EmailDomainChars == Letters \cup Digits \cup {".", "-"}

AllIn(c, from, to, class) == \A k \in from..to : c[k] \in class

\* validate_email: ^[a-zA-Z0-9._%+-]+@[a-zA-Z0-9.-]+\.[a-zA-Z]{2,}$
validate_email(email) ==
    LET c == Chars[email]
        n == Len(c)
    IN /\ n > 0
       /\ \E a, d \in 1..n :
             /\ a > 1
             /\ AllIn(c, 1, a - 1, EmailLocalChars)
             /\ c[a] = "@"
             /\ d > a + 1
             /\ AllIn(c, a + 1, d - 1, EmailDomainChars)
             /\ c[d] = "."
             /\ n - d >= 2
             /\ AllIn(c, d + 1, n, Letters)

\* validate_password: at least 8 characters, an upper-case letter, a
\* lower-case letter and a digit
validate_password(password) ==
    LET c == Chars[password]
    IN /\ Len(c) > 0
       /\ ~(Len(c) < 8)
       /\ \E k \in 1..Len(c) : c[k] \in Upper
       /\ \E k \in 1..Len(c) : c[k] \in Lower
       /\ \E k \in 1..Len(c) : c[k] \in Digits

\* validate_username: at least 3 characters of [a-zA-Z0-9_]
validate_username(username) ==
    LET c == Chars[username]
    IN /\ Len(c) > 0
       /\ ~(Len(c) < 3)
       /\ AllIn(c, 1, Len(c), WordChars)

(* ------------------------------ SaleDAO ------------------------------- *)
LineTotal(item) == item.quantity * item.unit_price

total_amount_of(items) ==
    SumSeq([k \in 1..Len(items) |-> LineTotal(items[k])], Len(items))

InsufficientStock(on_hand, requested) == on_hand < requested

Decrement(on_hand, n) == on_hand - n

Restore_none(on_hand, n) == on_hand

Restore(on_hand, n) == on_hand + n

LowStock(quantity, reorder_level) == quantity <= reorder_level

\* the loop of SaleDAO.create_sale over the lines, from line k on
RECURSIVE SaleDAO_lines(_, _, _, _, _, _)
SaleDAO_lines(s, items, k, sale_id, user_id, warnings) ==
    IF k > Len(items)
    THEN [s |-> s, raised |-> FALSE, warnings |-> warnings]
    ELSE LET item == items[k]
             iid == item.inventory_item_id
         IN IF iid \notin DOMAIN s.inventory
            THEN [s |-> s, raised |-> TRUE, warnings |-> warnings]
            ELSE IF InsufficientStock(s.inventory[iid].quantity, item.quantity)
            THEN [s |-> s, raised |-> TRUE, warnings |-> warnings]
            ELSE LET left == Decrement(s.inventory[iid].quantity, item.quantity)
                     s2 == [s EXCEPT
                              !.sale_items = @ \cup
                                  {[id |-> NextId(Ids(@)),
                                    sale_id |-> sale_id,
                                    inventory_item_id |-> iid,
                                    quantity |-> item.quantity,
                                    unit_price |-> item.unit_price]},
                              !.inventory[iid].quantity = left,
                              !.audit_logs = Append(@,
                                  AuditLog(user_id, "UPDATE", "inventory_items", iid))]
                     w2 == IF LowStock(left, s.inventory[iid].reorder_level)
                           THEN Append(warnings, [item |-> iid, quantity |-> left])
                           ELSE warnings
                 IN SaleDAO_lines(s2, items, k + 1, sale_id, user_id, w2)

\* SaleDAO.create_sale up to (not including) its commit
SaleDAO_create_sale(s, user_id, items) ==
    LET sale_id == NextId(Ids(s.sales))
        sale == [id |-> sale_id, user_id |-> user_id,
                 total_amount |-> total_amount_of(items)]
        s1 == [s EXCEPT !.sales = @ \cup {sale}]
        r == SaleDAO_lines(s1, items, 1, sale_id, user_id, <<>>)
    IN IF r.raised
       THEN [s |-> r.s, raised |-> TRUE, sale_id |-> sale_id, warnings |-> r.warnings]
       ELSE [s |-> [r.s EXCEPT !.audit_logs = Append(@,
                        AuditLog(user_id, "CREATE", "sales", sale_id))],
             raised |-> FALSE, sale_id |-> sale_id, warnings |-> r.warnings]

ItemsOfSale(s, sale_id) == {si \in s.sale_items : si.sale_id = sale_id}

\* the restore loop of SaleDAO.void_sale over the sale's rows
RECURSIVE SaleDAO_restore(_, _, _, _)
SaleDAO_restore(s, rows, sale_id, user_id) ==
    IF rows = {} THEN s
    ELSE LET si == CHOOSE x \in rows : \A y \in rows : x.id <= y.id
             iid == si.inventory_item_id
             s2 == [s EXCEPT
                      !.inventory[iid].quantity = Restore(@, si.quantity),
                      !.audit_logs = Append(@,
                          AuditLog(user_id, "UPDATE", "inventory_items", iid))]
         IN SaleDAO_restore(s2, rows \ {si}, sale_id, user_id)

\* SaleDAO.void_sale up to its commit, for a sale that exists
SaleDAO_void_sale(s, sale_id, user_id) ==
    LET rows == ItemsOfSale(s, sale_id)
        s1 == SaleDAO_restore(s, rows, sale_id, user_id)
        s2 == [s1 EXCEPT !.audit_logs = Append(@,
                  AuditLog(user_id, "VOID", "sales", sale_id))]
    IN [s2 EXCEPT !.sale_items = @ \ rows,
                  !.sales = {x \in @ : x.id # sale_id}]

(* ---------------------------- SalesService ---------------------------- *)
\* the validation loop of SalesService.create_sale: TRUE when a line is
\* rejected; every line is checked against the stock the session shows
\* before the sale, not against what earlier lines of the same sale take
RECURSIVE SalesService_rejects(_, _, _)
SalesService_rejects(s, items, k) ==
    IF k > Len(items) THEN FALSE
    ELSE LET item == items[k]
             iid == item.inventory_item_id
         IN \/ ~validate_quantity(item.quantity)
            \/ ~validate_amount(item.unit_price)
            \/ iid \notin DOMAIN s.inventory
            \/ s.inventory[iid].quantity < item.quantity
            \/ SalesService_rejects(s, items, k + 1)

\* the lines a caller can pass: well-formed ones, and one of each kind the
\* validation loop rejects
ValidLines ==
    {[inventory_item_id |-> i, quantity |-> q, unit_price |-> UnitCost[i]] :
        i \in ItemIds, q \in 0..MaxQty}

BadLines ==
    {[inventory_item_id |-> 1, quantity |-> -1, unit_price |-> 1],
     [inventory_item_id |-> 1, quantity |-> 1, unit_price |-> 0],
     [inventory_item_id |-> NoSuchId, quantity |-> 1, unit_price |-> 1]}

\* the lists of n lines: all well-formed, or well-formed up to a last line
\* that the validation rejects
LineLists(n) ==
    [1..n -> ValidLines]
    \cup (IF n = 0 THEN {}
          ELSE {Append(l, b) : l \in [1..(n - 1) -> ValidLines], b \in BadLines})

InventoryOf(s) == [i \in DOMAIN s.inventory |-> s.inventory[i].quantity]

\* SalesService.create_sale sends its first statement (get_item_by_id for
\* the first line, or the INSERT of the sale when there is no line) unless
\* the first line's quantity or unit price is rejected before that
ReachesSession(items) ==
    \/ items = <<>>
    \/ validate_quantity(items[1].quantity) /\ validate_amount(items[1].unit_price)

SalesService_create_sale ==
    \E n \in 0..MaxLines :
        /\ Cardinality(committed.sales) < MaxSales
        /\ Len(sess.audit_logs) + n + 1 <= MaxAudit
        /\ \E items \in LineLists(n) :
            IF ~sess.is_active /\ ReachesSession(items)
            THEN /\ lastOp' = Raised([name |-> "create_sale", stage |-> "session"])
                 /\ UNCHANGED <<sess, committed, ghosts>>
            ELSE IF SalesService_rejects(sess, items, 1)
            THEN /\ lastOp' = [name |-> "create_sale", ok |-> FALSE,
                               stage |-> "service"]
                 /\ UNCHANGED <<sess, committed, ghosts>>
            ELSE LET r == SaleDAO_create_sale(sess, ActingUser, items)
                 IN IF r.raised
                    THEN /\ sess' = r.s
                         /\ UNCHANGED committed
                         /\ ghosts' = ghosts \cup {r.sale_id}
                         /\ lastOp' = [name |-> "create_sale", ok |-> FALSE,
                                       stage |-> "dao", sale_id |-> r.sale_id,
                                       lines |-> Len(items),
                                       requested |-> RequestedOf(items)]
                    ELSE /\ Commit(r.s)
                         /\ ghosts' = IF CommitOk(r.s) THEN ghosts ELSE {}
                         /\ lastOp' = [name |-> "create_sale", ok |-> CommitOk(r.s),
                                       stage |-> "dao", sale_id |-> r.sale_id,
                                       lines |-> Len(items),
                                       requested |-> RequestedOf(items), warnings |-> r.warnings,
                                       inv_before |-> InventoryOf(sess)]
        /\ UNCHANGED <<active_sessions, now, proc, write_lock, provider>>

SalesService_void_sale ==
    \E sale_id \in 1..(MaxSales + 1) :
        /\ IF ~sess.is_active
           THEN /\ lastOp' = Raised([name |-> "void_sale", sale_id |-> sale_id])
                /\ UNCHANGED <<sess, committed, ghosts>>
           ELSE IF sale_id \notin Ids(sess.sales)
           THEN /\ lastOp' = [name |-> "void_sale", ok |-> FALSE,
                              sale_id |-> sale_id]
                /\ UNCHANGED <<sess, committed, ghosts>>
           ELSE LET s2 == SaleDAO_void_sale(sess, sale_id, ActingUser)
                IN /\ Len(s2.audit_logs) <= MaxAudit
                   /\ Commit(s2)
                   /\ ghosts' = IF CommitOk(s2) THEN ghosts \ {sale_id} ELSE {}
                   /\ lastOp' = [name |-> "void_sale", ok |-> CommitOk(s2),
                                 sale_id |-> sale_id,
                                 units |-> QtySet(ItemsOfSale(sess, sale_id)),
                                 after_create |->
                                     /\ lastOp.name = "create_sale"
                                     /\ lastOp.ok
                                     /\ lastOp.sale_id = sale_id]
        /\ UNCHANGED <<active_sessions, now, proc, write_lock, provider>>

(* --------------------------- initial state ---------------------------- *)
\* hash_password with the salt secrets.token_hex hands it: the stored value
\* is "salt$digest", kept as its two parts; SHA-256 is modelled as the text
\* it hashes, the password with the salt appended
hash_of_unsalted(password, salt) == [salt |-> "", digest |-> password]

hash_of(password, salt) == [salt |-> salt, digest |-> password \o salt]

\* a users row as the model's defaults leave it
UserRow(username, email, password_hash, role) ==
    [username |-> username, email |-> email,
     password_hash |-> password_hash,
     role |-> role, is_active |-> TRUE, last_login |-> None,
     reset_token |-> NoText, reset_token_expiry |-> None]

User(username, email, password, role) ==
    UserRow(username, email, hash_of(password, "s0"), role)

SeedUsers ==
    (1 :> User("admin_test", "admin@test.com", "admin123", "admin")) @@
    (2 :> User("manager_test", "manager@test.com", "manager123", "manager")) @@
    (3 :> User("staff_test", "staff@test.com", "staff123", "staff"))

\* the categories and the item names of the seeded database
SeedCategories ==
    (1 :> [name |-> "Food", type |-> "expense"]) @@
    (2 :> [name |-> "Utilities", type |-> "expense"]) @@
    (3 :> [name |-> "Drinks", type |-> "expense"]) @@
    (4 :> [name |-> "Food Sales", type |-> "income"]) @@
    (5 :> [name |-> "Drink Sales", type |-> "income"])

ItemName == (1 :> "Coffee Beans") @@ (2 :> "Milk")

SeedDatabases ==
    {[users |-> SeedUsers,
      categories |-> SeedCategories,
      inventory |-> [i \in ItemIds |->
                        [name |-> ItemName[i],
                         quantity |-> q[i], unit_cost |-> UnitCost[i],
                         reorder_level |-> 1, last_restocked |-> None]],
      inv_txns |-> <<>>,
      sales |-> {},
      sale_items |-> {},
      expenses |-> {},
      audit_logs |-> <<>>,
      is_active |-> TRUE] : q \in [ItemIds -> 0..MaxStock]}

NoOp == [name |-> "init", ok |-> TRUE]

\* the class attribute ServiceProvider._instance as the module is loaded,
\* and the ServiceProvider objects constructed so far (none)
NoProvider == [_instance |-> None, constructed |-> <<>>]

Init ==
    /\ sess \in SeedDatabases
    /\ committed = sess
    /\ ghosts = {}
    /\ lastOp = NoOp
    /\ active_sessions = [u \in {} |-> None]
    /\ now = 0
    /\ proc = <<>>
    /\ write_lock = None
    /\ provider = NoProvider

(* ------------------- sales on the one shared session ------------------ *)
NextSales ==
    \/ SalesService_create_sale
    \/ SalesService_void_sale

SpecSales == Init /\ [][NextSales]_vars

(* ------------------------------ security ------------------------------ *)
\* verify_password: split the stored value into salt and hash, hash the
\* candidate with that salt appended, compare
verify_password(password, hashed_password) ==
    hashed_password.digest = password \o hashed_password.salt

(* ------------------------------ UserDAO ------------------------------- *)
\* the lookups return the id of the row they find, None when there is none
get_user_by_id_unfiltered(s, user_id) ==
    IF user_id \in DOMAIN s.users
    THEN user_id ELSE None

get_user_by_id(s, user_id) ==
    IF user_id \in DOMAIN s.users /\ s.users[user_id].is_active
    THEN user_id ELSE None

get_user_by_username(s, username) ==
    LET found == {u \in DOMAIN s.users :
                     s.users[u].username = username /\ s.users[u].is_active}
    IN IF found = {} THEN None ELSE CHOOSE u \in found : TRUE

get_user_by_email(s, email) ==
    LET found == {u \in DOMAIN s.users :
                     s.users[u].email = email /\ s.users[u].is_active}
    IN IF found = {} THEN None ELSE CHOOSE u \in found : TRUE

\* the by-id query of reactivate_user, which has no is_active filter
query_user_by_id(s, user_id) ==
    IF user_id \in DOMAIN s.users THEN user_id ELSE None

\* the setattr loop of update_user over the keys of update_data
apply_update(row, update_data) ==
    [f \in DOMAIN row |->
        IF f \in DOMAIN update_data /\ f \notin {"id", "password_hash"}
        THEN update_data[f] ELSE row[f]]

\* each DAO call below is the call up to its commit: `s` is the session
\* after it, `found` tells whether the addressed row was found
UserDAO_update_user(s, user_id, update_data, audit_user_id) ==
    IF get_user_by_id(s, user_id) = None THEN [s |-> s, found |-> FALSE]
    ELSE [s |-> [s EXCEPT
                   !.users[user_id] = apply_update(@, update_data),
                   !.audit_logs = Append(@,
                       AuditLog(audit_user_id, "UPDATE", "users", user_id))],
          found |-> TRUE]

UserDAO_deactivate_user(s, user_id, audit_user_id) ==
    IF get_user_by_id(s, user_id) = None THEN [s |-> s, found |-> FALSE]
    ELSE [s |-> [s EXCEPT
                   !.users[user_id].is_active = FALSE,
                   !.audit_logs = Append(@,
                       AuditLog(audit_user_id, "DEACTIVATE", "users", user_id))],
          found |-> TRUE]

UserDAO_reactivate_user(s, user_id, audit_user_id) ==
    IF query_user_by_id(s, user_id) = None THEN [s |-> s, found |-> FALSE]
    ELSE [s |-> [s EXCEPT
                   !.users[user_id].is_active = TRUE,
                   !.audit_logs = Append(@,
                       AuditLog(audit_user_id, "REACTIVATE", "users", user_id))],
          found |-> TRUE]

UserDAO_update_last_login(s, user_id, t) ==
    IF get_user_by_id(s, user_id) = None THEN [s |-> s, found |-> FALSE]
    ELSE [s |-> [s EXCEPT !.users[user_id].last_login = t], found |-> TRUE]

UserDAO_create_user(s, username, email, password_hash, role) ==
    [s EXCEPT
       !.users = (NextId(DOMAIN s.users) :>
                     UserRow(username, email, password_hash, role)) @@ @,
       !.audit_logs = Append(@, AuditLog(None, "CREATE", "users", None))]

UserDAO_update_password_keeps_token(s, user_id, new_password_hash, audit_user_id) ==
    IF get_user_by_id(s, user_id) = None THEN [s |-> s, found |-> FALSE]
    ELSE [s |-> [s EXCEPT
                   !.users[user_id].password_hash = new_password_hash,
                   !.audit_logs = Append(@,
                       AuditLog(audit_user_id, "UPDATE", "users", user_id))],
          found |-> TRUE]
UserDAO_update_password(s, user_id, new_password_hash, audit_user_id) ==
    IF get_user_by_id(s, user_id) = None THEN [s |-> s, found |-> FALSE]
    ELSE [s |-> [s EXCEPT
                   !.users[user_id].password_hash = new_password_hash,
                   !.users[user_id].reset_token = NoText,
                   !.users[user_id].reset_token_expiry = None,
                   !.audit_logs = Append(@,
                       AuditLog(audit_user_id, "UPDATE", "users", user_id))],
          found |-> TRUE]

UserDAO_set_reset_token(s, user_id, reset_token, expiry) ==
    IF get_user_by_id(s, user_id) = None THEN [s |-> s, found |-> FALSE]
    ELSE [s |-> [s EXCEPT
                   !.users[user_id].reset_token = reset_token,
                   !.users[user_id].reset_token_expiry = expiry],
          found |-> TRUE]

(* ----------------------------- AuthService ---------------------------- *)
SESSION_TIMEOUT_MINUTES == 30

Roles == {"admin", "manager", "staff"}

role_hierarchy == [r \in Roles |->
    IF r = "admin" THEN 3 ELSE IF r = "manager" THEN 2 ELSE 1]

\* datetime.utcnow() > session['expires_at']
SessionExpired_never(t, expires_at) == FALSE

SessionExpired(t, expires_at) == t > expires_at

\* _create_session
create_session(sessions, s, user_id, t) ==
    (user_id :> [user_id |-> user_id,
                 username |-> s.users[user_id].username,
                 role |-> s.users[user_id].role,
                 created_at |-> t,
                 expires_at |-> t + SESSION_TIMEOUT_MINUTES])
    @@ sessions

\* logout: the session map after it
logout(sessions, user_id) ==
    [u \in DOMAIN sessions \ {user_id} |-> sessions[u]]

\* validate_session: the session map after it and the pair it returns
validate_session_fixed_expiry(sessions, user_id, t) ==
    IF user_id \notin DOMAIN sessions
    THEN [sessions |-> sessions, ok |-> FALSE, error |-> "No active session found"]
    ELSE IF SessionExpired(t, sessions[user_id].expires_at)
    THEN [sessions |-> logout(sessions, user_id), ok |-> FALSE,
          error |-> "Session expired"]
    ELSE [sessions |-> sessions, ok |-> TRUE, error |-> NoText]
validate_session(sessions, user_id, t) ==
    IF user_id \notin DOMAIN sessions
    THEN [sessions |-> sessions, ok |-> FALSE, error |-> "No active session found"]
    ELSE IF SessionExpired(t, sessions[user_id].expires_at)
    THEN [sessions |-> logout(sessions, user_id), ok |-> FALSE,
          error |-> "Session expired"]
    ELSE [sessions |-> [sessions EXCEPT ![user_id].expires_at =
                           t + SESSION_TIMEOUT_MINUTES],
          ok |-> TRUE, error |-> NoText]

\* the role comparison of check_permission
role_permits_reversed(user_role, required_role) ==
    \/ user_role = "admin"
    \/ role_hierarchy[user_role] <= role_hierarchy[required_role]

role_permits(user_role, required_role) ==
    \/ user_role = "admin"
    \/ role_hierarchy[user_role] >= role_hierarchy[required_role]

check_permission(sessions, user_id, required_role, t) ==
    LET v == validate_session(sessions, user_id, t)
    IN IF ~v.ok THEN v
       ELSE IF role_permits(v.sessions[user_id].role, required_role)
       THEN v
       ELSE [sessions |-> v.sessions, ok |-> FALSE, error |-> "Insufficient permissions"]

\* the patch of the target's live session in change_user_role
patch_session_role_skipped(sessions, target_user_id, new_role) == sessions

patch_session_role(sessions, target_user_id, new_role) ==
    IF target_user_id \in DOMAIN sessions
    THEN [sessions EXCEPT ![target_user_id].role = new_role]
    ELSE sessions

Usernames == {SeedUsers[u].username : u \in DOMAIN SeedUsers} \cup {"nobody"}

\* a call presents the password the fixtures gave the user, or another one
Passwords(username) ==
    {p \in {"admin123", "manager123", "staff123"} :
        \E u \in DOMAIN SeedUsers :
            /\ SeedUsers[u].username = username
            /\ verify_password(p, SeedUsers[u].password_hash)}
    \cup {"wrong-password"}

\* the users a call on sessions names
UserIds == DOMAIN SeedUsers

\* the changes a call of update_user asks for
UpdateData == {[role |-> "manager"], [email |-> "changed@test.com"]}

\* the ids a call on the users table names
TargetIds == DOMAIN SeedUsers \cup {NoSuchId}

AuthService_login ==
    \E username \in Usernames : \E password \in Passwords(username) :
        LET u == get_user_by_username(sess, username)
        IN /\ IF ~sess.is_active
              THEN /\ lastOp' = Raised([name |-> "login", username |-> username,
                                        password |-> password])
                   /\ UNCHANGED <<sess, committed, active_sessions>>
              ELSE IF u = None
              THEN /\ lastOp' = [name |-> "login", ok |-> FALSE, username |-> username,
                                 password |-> password]
                   /\ UNCHANGED <<sess, committed, active_sessions>>
              ELSE IF ~sess.users[u].is_active
              THEN /\ lastOp' = [name |-> "login", ok |-> FALSE, username |-> username,
                                 password |-> password]
                   /\ UNCHANGED <<sess, committed, active_sessions>>
              ELSE IF ~verify_password(password, sess.users[u].password_hash)
              THEN /\ lastOp' = [name |-> "login", ok |-> FALSE, username |-> username,
                                 password |-> password]
                   /\ UNCHANGED <<sess, committed, active_sessions>>
              ELSE LET r == UserDAO_update_last_login(sess, u, now)
                   IN /\ Commit(r.s)
                      /\ IF CommitOk(r.s)
                         THEN /\ active_sessions' =
                                    create_session(active_sessions, r.s, u, now)
                              /\ lastOp' = [name |-> "login", ok |-> TRUE,
                                            username |-> username,
                                            password |-> password]
                         ELSE /\ UNCHANGED active_sessions
                              /\ lastOp' = [name |-> "login", ok |-> FALSE,
                                            username |-> username,
                                            password |-> password]
           /\ UNCHANGED <<ghosts, now, proc, write_lock, provider>>

AuthService_logout ==
    \E user_id \in UserIds :
        /\ active_sessions' = logout(active_sessions, user_id)
        /\ lastOp' = [name |-> "logout", ok |-> user_id \in DOMAIN active_sessions,
                      user_id |-> user_id]
        /\ UNCHANGED <<sess, committed, ghosts, now, proc, write_lock, provider>>

AuthService_validate_session ==
    \E user_id \in UserIds :
        LET v == validate_session(active_sessions, user_id, now)
        IN /\ active_sessions' = v.sessions
           /\ lastOp' = [name |-> "validate_session", ok |-> v.ok,
                         user_id |-> user_id, error |-> v.error]
           /\ UNCHANGED <<sess, committed, ghosts, now, proc, write_lock, provider>>

AuthService_check_permission ==
    \E user_id \in UserIds, required_role \in Roles :
        LET c == check_permission(active_sessions, user_id, required_role, now)
        IN /\ active_sessions' = c.sessions
           /\ lastOp' = [name |-> "check_permission", ok |-> c.ok,
                         user_id |-> user_id, required_role |-> required_role,
                         error |-> c.error]
           /\ UNCHANGED <<sess, committed, ghosts, now, proc, write_lock, provider>>

AuthService_change_user_role ==
    \E admin_user_id \in UserIds, target_user_id \in TargetIds, new_role \in Roles :
        LET c == check_permission(active_sessions, admin_user_id, "admin", now)
            op == [name |-> "change_user_role", admin_user_id |-> admin_user_id,
                   target_user_id |-> target_user_id, new_role |-> new_role]
        IN /\ IF ~c.ok
              THEN /\ active_sessions' = c.sessions
                   /\ lastOp' = op @@ [ok |-> FALSE]
                   /\ UNCHANGED <<sess, committed>>
              ELSE IF ~sess.is_active
              THEN /\ active_sessions' = c.sessions
                   /\ lastOp' = Raised(op)
                   /\ UNCHANGED <<sess, committed>>
              ELSE LET r == UserDAO_update_user(sess, target_user_id,
                                                [role |-> new_role], admin_user_id)
                   IN IF ~r.found
                      THEN /\ active_sessions' = c.sessions
                           /\ lastOp' = op @@ [ok |-> FALSE]
                           /\ UNCHANGED <<sess, committed>>
                      ELSE /\ Len(sess.audit_logs) < MaxRoleChanges
                           /\ Commit(r.s)
                           /\ IF CommitOk(r.s)
                              THEN /\ active_sessions' = patch_session_role(
                                          c.sessions, target_user_id, new_role)
                                   /\ lastOp' = op @@ [ok |-> TRUE]
                              ELSE /\ active_sessions' = c.sessions
                                   /\ lastOp' = op @@ [ok |-> FALSE]
           /\ UNCHANGED <<ghosts, now, proc, write_lock, provider>>

AuthService_clean_expired_sessions ==
    /\ active_sessions' =
          [u \in {v \in DOMAIN active_sessions :
                     ~(active_sessions[v].expires_at < now)} |-> active_sessions[u]]
    /\ lastOp' = [name |-> "clean_expired_sessions", ok |-> TRUE]
    /\ UNCHANGED <<sess, committed, ghosts, now, proc, write_lock, provider>>

(* ----------------------------- UserService ---------------------------- *)
UserService_authenticate_user ==
    \E username \in Usernames : \E password \in Passwords(username) :
        LET u == get_user_by_username(sess, username)
            op == [name |-> "authenticate_user", username |-> username,
                   password |-> password]
        IN /\ IF ~sess.is_active
              THEN /\ lastOp' = Raised(op)
                   /\ UNCHANGED <<sess, committed>>
              ELSE IF u = None
              THEN /\ lastOp' = op @@ [ok |-> FALSE]
                   /\ UNCHANGED <<sess, committed>>
              ELSE IF ~verify_password(password, sess.users[u].password_hash)
              THEN /\ lastOp' = op @@ [ok |-> FALSE]
                   /\ UNCHANGED <<sess, committed>>
              ELSE LET r == UserDAO_update_last_login(sess, u, now)
                   IN /\ Commit(r.s)
                      /\ lastOp' = op @@ [ok |-> CommitOk(r.s)]
           /\ UNCHANGED <<ghosts, active_sessions, now, proc, write_lock, provider>>

\* the registrations and profile changes the calls ask for
RegUsernames == {"staff_test", "new_user", "ab"}
RegEmails == {"staff@test.com", "new@test.com", "bad-email"}
RegPasswords == {"Password1", "password"}
ProfileData == {[email |-> "staff@test.com"], [email |-> "new@test.com"],
                [email |-> "bad-email"], [username |-> "staff_test"],
                [role |-> "manager"]}

UserService_register_user ==
    \E username \in RegUsernames, email \in RegEmails, password \in RegPasswords :
        LET op == [name |-> "register_user", username |-> username,
                   email |-> email, password |-> password]
        IN /\ IF \/ ~validate_username(username)
                 \/ ~validate_email(email)
                 \/ ~validate_password(password)
              THEN /\ lastOp' = op @@ [ok |-> FALSE, stage |-> "validation"]
                   /\ UNCHANGED <<sess, committed>>
              ELSE IF ~sess.is_active
              THEN /\ lastOp' = Raised(op @@ [stage |-> "session"])
                   /\ UNCHANGED <<sess, committed>>
              ELSE IF \/ get_user_by_username(sess, username) # None
                      \/ get_user_by_email(sess, email) # None
              THEN /\ lastOp' = op @@ [ok |-> FALSE, stage |-> "exists"]
                   /\ UNCHANGED <<sess, committed>>
              ELSE LET s1 == UserDAO_create_user(sess, username, email,
                                 hash_of(password, "s1"), "staff")
                   IN /\ Len(sess.audit_logs) < MaxUserChanges
                      /\ Commit(s1)
                      /\ lastOp' = op @@ [ok |-> CommitOk(s1), stage |-> "commit"]
           /\ UNCHANGED <<ghosts, active_sessions, now, proc, write_lock, provider>>

UserService_update_user_profile ==
    \E user_id \in TargetIds, update_data \in ProfileData :
        LET op == [name |-> "update_user_profile", user_id |-> user_id,
                   update_data |-> update_data]
            taken == IF "email" \in DOMAIN update_data
                     THEN get_user_by_email(sess, update_data.email) ELSE None
        IN /\ IF "email" \in DOMAIN update_data /\ ~validate_email(update_data.email)
              THEN /\ lastOp' = op @@ [ok |-> FALSE, stage |-> "validation"]
                   /\ UNCHANGED <<sess, committed>>
              ELSE IF ~sess.is_active
              THEN /\ lastOp' = Raised(op @@ [stage |-> "session"])
                   /\ UNCHANGED <<sess, committed>>
              ELSE IF taken # None /\ taken # user_id
              THEN /\ lastOp' = op @@ [ok |-> FALSE, stage |-> "exists"]
                   /\ UNCHANGED <<sess, committed>>
              ELSE LET r == UserDAO_update_user(sess, user_id, update_data, ActingUser)
                   IN IF ~r.found
                      THEN /\ lastOp' = op @@ [ok |-> FALSE, stage |-> "missing"]
                           /\ UNCHANGED <<sess, committed>>
                      ELSE /\ Len(sess.audit_logs) < MaxUserChanges
                           /\ Commit(r.s)
                           /\ lastOp' = op @@ [ok |-> CommitOk(r.s), stage |-> "commit"]
           /\ UNCHANGED <<ghosts, active_sessions, now, proc, write_lock, provider>>

(* ------------------ calls the user management screen makes ------------ *)
UserDAO_call_get_user_by_id ==
    \E user_id \in TargetIds :
        /\ lastOp' = IF ~sess.is_active
                      THEN Raised([name |-> "get_user_by_id", user_id |-> user_id])
                      ELSE [name |-> "get_user_by_id",
                            ok |-> get_user_by_id(sess, user_id) # None,
                            user_id |-> user_id]
        /\ UNCHANGED <<sess, committed, ghosts, active_sessions, now, proc, write_lock, provider>>

\* each DAO call commits the session it leaves when it found the row
UserDAO_call_create_user ==
    \E role \in Roles :
        LET s1 == UserDAO_create_user(sess, "new_user", "new@test.com",
                                      hash_of("new-password", "salt-n"), role)
        IN /\ Len(sess.audit_logs) < MaxUserChanges
           /\ IF ~sess.is_active
              THEN /\ lastOp' = Raised([name |-> "create_user",
                                        user_id |-> NextId(DOMAIN sess.users)])
                   /\ UNCHANGED <<sess, committed>>
              ELSE /\ Commit(s1)
                   /\ lastOp' = [name |-> "create_user", ok |-> CommitOk(s1),
                                 user_id |-> NextId(DOMAIN sess.users)]
           /\ UNCHANGED <<ghosts, active_sessions, now, proc, write_lock, provider>>

UserDAO_call_update_user ==
    \E user_id \in TargetIds, update_data \in UpdateData :
        LET r == UserDAO_update_user(sess, user_id, update_data, ActingUser)
        IN /\ IF ~sess.is_active \/ ~r.found
              THEN UNCHANGED <<sess, committed>>
              ELSE /\ Len(sess.audit_logs) < MaxUserChanges
                   /\ Commit(r.s)
           /\ lastOp' = IF ~sess.is_active
                      THEN Raised([name |-> "update_user", user_id |-> user_id])
                      ELSE [name |-> "update_user", ok |-> r.found /\ CommitOk(r.s),
                            user_id |-> user_id]
           /\ UNCHANGED <<ghosts, active_sessions, now, proc, write_lock, provider>>

UserDAO_call_update_password ==
    \E user_id \in TargetIds :
        LET r == UserDAO_update_password(sess, user_id,
                     hash_of("new-password", "salt-n"), ActingUser)
        IN /\ IF ~sess.is_active \/ ~r.found
              THEN UNCHANGED <<sess, committed>>
              ELSE /\ Len(sess.audit_logs) < MaxUserChanges
                   /\ Commit(r.s)
           /\ lastOp' = IF ~sess.is_active
                      THEN Raised([name |-> "update_password", user_id |-> user_id])
                      ELSE [name |-> "update_password", ok |-> r.found /\ CommitOk(r.s),
                            user_id |-> user_id]
           /\ UNCHANGED <<ghosts, active_sessions, now, proc, write_lock, provider>>

UserDAO_call_set_reset_token ==
    \E user_id \in TargetIds :
        LET r == UserDAO_set_reset_token(sess, user_id, "reset-token", now + 1)
        IN /\ IF ~sess.is_active \/ ~r.found
              THEN UNCHANGED <<sess, committed>>
              ELSE /\ Len(sess.audit_logs) < MaxUserChanges
                   /\ Commit(r.s)
           /\ lastOp' = IF ~sess.is_active
                      THEN Raised([name |-> "set_reset_token", user_id |-> user_id])
                      ELSE [name |-> "set_reset_token", ok |-> r.found /\ CommitOk(r.s),
                            user_id |-> user_id]
           /\ UNCHANGED <<ghosts, active_sessions, now, proc, write_lock, provider>>

UserDAO_call_update_last_login ==
    \E user_id \in TargetIds :
        LET r == UserDAO_update_last_login(sess, user_id, now)
        IN /\ IF ~sess.is_active \/ ~r.found
              THEN UNCHANGED <<sess, committed>>
              ELSE /\ Len(sess.audit_logs) < MaxUserChanges
                   /\ Commit(r.s)
           /\ lastOp' = IF ~sess.is_active
                      THEN Raised([name |-> "update_last_login", user_id |-> user_id])
                      ELSE [name |-> "update_last_login", ok |-> r.found /\ CommitOk(r.s),
                            user_id |-> user_id]
           /\ UNCHANGED <<ghosts, active_sessions, now, proc, write_lock, provider>>

UserDAO_call_deactivate_user ==
    \E user_id \in TargetIds :
        LET r == UserDAO_deactivate_user(sess, user_id, ActingUser)
        IN /\ IF ~sess.is_active \/ ~r.found
              THEN UNCHANGED <<sess, committed>>
              ELSE /\ Len(sess.audit_logs) < MaxUserChanges
                   /\ Commit(r.s)
           /\ lastOp' = IF ~sess.is_active
                      THEN Raised([name |-> "deactivate_user", user_id |-> user_id])
                      ELSE [name |-> "deactivate_user", ok |-> r.found /\ CommitOk(r.s),
                            user_id |-> user_id]
           /\ UNCHANGED <<ghosts, active_sessions, now, proc, write_lock, provider>>

UserDAO_call_reactivate_user ==
    \E user_id \in TargetIds :
        LET r == UserDAO_reactivate_user(sess, user_id, ActingUser)
        IN /\ IF ~sess.is_active \/ ~r.found
              THEN UNCHANGED <<sess, committed>>
              ELSE /\ Len(sess.audit_logs) < MaxUserChanges
                   /\ Commit(r.s)
           /\ lastOp' = IF ~sess.is_active
                      THEN Raised([name |-> "reactivate_user", user_id |-> user_id])
                      ELSE [name |-> "reactivate_user", ok |-> r.found /\ CommitOk(r.s),
                            user_id |-> user_id]
           /\ UNCHANGED <<ghosts, active_sessions, now, proc, write_lock, provider>>

\* the lapses of time between calls: the timeout exactly, and just over it
Lapses == {SESSION_TIMEOUT_MINUTES, SESSION_TIMEOUT_MINUTES + 1}

\* time passes between calls
Tick ==
    \E d \in Lapses :
        /\ now + d <= MaxNow
        /\ now' = now + d
        /\ UNCHANGED <<sess, committed, ghosts, lastOp, active_sessions, proc, write_lock, provider>>

\* one lapse of time, long enough for a session to run out
TickOnce ==
    \E d \in Lapses :
        /\ now = 0
        /\ now' = now + d
        /\ UNCHANGED <<sess, committed, ghosts, lastOp, active_sessions, proc, write_lock, provider>>

\* the stock plays no part in the calls on users and sessions
InitUsers ==
    /\ Init
    /\ \A i \in ItemIds : sess.inventory[i].quantity = 0

NextSession ==
    \/ AuthService_login
    \/ AuthService_logout
    \/ AuthService_validate_session
    \/ AuthService_check_permission
    \/ AuthService_clean_expired_sessions
    \/ Tick

SpecSession == InitUsers /\ [][NextSession]_vars

NextRoles ==
    \/ AuthService_login
    \/ AuthService_change_user_role
    \/ TickOnce

SpecRoles == InitUsers /\ [][NextRoles]_vars

NextUsers ==
    \/ AuthService_login
    \/ UserService_authenticate_user
    \/ UserDAO_call_deactivate_user
    \/ UserDAO_call_reactivate_user
    \/ UserDAO_call_get_user_by_id

SpecUsers == InitUsers /\ [][NextUsers]_vars

NextUserDao ==
    \/ UserDAO_call_create_user
    \/ UserDAO_call_update_user
    \/ UserDAO_call_update_password
    \/ UserDAO_call_set_reset_token
    \/ UserDAO_call_update_last_login
    \/ UserDAO_call_deactivate_user
    \/ UserDAO_call_reactivate_user

SpecUserDao == InitUsers /\ [][NextUserDao]_vars

NextRegister ==
    \/ UserService_register_user
    \/ UserService_update_user_profile
    \/ UserDAO_call_deactivate_user
    \/ UserDAO_call_reactivate_user

SpecRegister == InitUsers /\ [][NextRegister]_vars

(* ---------------------------- InventoryDAO ---------------------------- *)
InventoryItem(name, quantity, unit_cost, reorder_level) ==
    [name |-> name, quantity |-> quantity, unit_cost |-> unit_cost,
     reorder_level |-> reorder_level, last_restocked |-> None]

InventoryTransaction(inventory_item_id, transaction_type, quantity, user_id) ==
    [inventory_item_id |-> inventory_item_id,
     transaction_type |-> transaction_type,
     quantity |-> quantity, user_id |-> user_id]

\* item.id as create_item reads it: the item is added to the session but
\* not flushed yet, so its primary key is still unset
UnflushedId(id) == None

\* InventoryDAO.create_item up to (not including) its commit
InventoryDAO_create_item(s, name, quantity, unit_cost, reorder_level, audit_user_id) ==
    LET id == NextId(DOMAIN s.inventory)
        s1 == [s EXCEPT !.inventory =
                  @ @@ (id :> [InventoryItem(name, quantity, unit_cost, reorder_level)
                                  EXCEPT !.last_restocked = now])]
        s2 == IF quantity > 0
              THEN [s1 EXCEPT !.inv_txns = Append(@,
                        InventoryTransaction(UnflushedId(id), "initial",
                                             quantity, audit_user_id))]
              ELSE s1
    IN [s |-> [s2 EXCEPT !.audit_logs = Append(@,
                   AuditLog(audit_user_id, "CREATE", "inventory_items", None))],
        id |-> id]

\* InventoryDAO.update_quantity up to its commit; found is FALSE when the
\* method returns None
InventoryDAO_update_quantity(s, item_id, quantity_change, transaction_type, user_id) ==
    IF item_id \notin DOMAIN s.inventory
    THEN [s |-> s, found |-> FALSE]
    ELSE [s |-> [s EXCEPT
                   !.inventory[item_id].quantity = @ + quantity_change,
                   !.inventory[item_id].last_restocked =
                       IF quantity_change > 0 THEN now ELSE @,
                   !.inv_txns = Append(@,
                       InventoryTransaction(item_id, transaction_type,
                                            quantity_change, user_id)),
                   !.audit_logs = Append(@,
                       AuditLog(user_id, "UPDATE", "inventory_items", item_id))],
          found |-> TRUE]

\* InventoryDAO.get_low_stock_items
get_low_stock_items(s) ==
    {i \in DOMAIN s.inventory :
        s.inventory[i].quantity <= s.inventory[i].reorder_level}

\* the changes of quantity a caller of the DAO asks for
QuantityChanges == {-1, 1}

InventoryDAO_call_update_quantity ==
    \E item_id \in DOMAIN sess.inventory \cup {NoSuchId} :
      \E quantity_change \in QuantityChanges :
        LET r == InventoryDAO_update_quantity(sess, item_id, quantity_change,
                                              "adjustment", ActingUser)
        IN /\ IF ~sess.is_active \/ ~r.found
              THEN UNCHANGED <<sess, committed>>
              ELSE /\ Len(sess.audit_logs) < MaxItemChanges
                   /\ Commit(r.s)
           /\ lastOp' = IF ~sess.is_active
                      THEN Raised([name |-> "update_quantity", item_id |-> item_id,
                                   quantity_change |-> quantity_change])
                      ELSE [name |-> "update_quantity",
                            ok |-> r.found /\ CommitOk(r.s),
                            item_id |-> item_id, quantity_change |-> quantity_change]
           /\ UNCHANGED <<ghosts, active_sessions, now, proc, write_lock, provider>>

(* ------------------------ initialize_database ------------------------- *)
default_admin ==
    UserRow("admin", "admin@brewandbite.com", hash_of("admin123", "s2"), "admin")

default_categories ==
    << [name |-> "Food Supplies", type |-> "expense"],
       [name |-> "Beverages", type |-> "expense"],
       [name |-> "Utilities", type |-> "expense"],
       [name |-> "Salaries", type |-> "expense"],
       [name |-> "Equipment", type |-> "expense"],
       [name |-> "Marketing", type |-> "expense"],
       [name |-> "Food Sales", type |-> "income"],
       [name |-> "Beverage Sales", type |-> "income"] >>

\* unit costs in cents
default_inventory ==
    << InventoryItem("Coffee Beans (1kg)", 50, 2000, 10),
       InventoryItem("Milk (1L)", 100, 250, 20),
       InventoryItem("Sugar (1kg)", 75, 150, 15),
       InventoryItem("Tea Bags (box)", 30, 500, 8),
       InventoryItem("Cups (pack)", 200, 25, 50) >>

\* a default row is added only when no row with its name is there yet
SeedMissing_always(exists) == TRUE

SeedMissing(exists) == ~exists

\* filter_by(...).first() on a name column: is there any such row
NameExists(table, column, name) ==
    \E i \in DOMAIN table : table[i][column] = name

seed_admin(s) ==
    IF SeedMissing(NameExists(s.users, "username", default_admin.username))
    THEN [s EXCEPT !.users = @ @@ (NextId(DOMAIN @) :> default_admin)]
    ELSE s

\* the loop over default_categories, up to entry k
RECURSIVE seed_categories(_, _)
seed_categories(s, k) ==
    IF k = 0 THEN s
    ELSE LET p == seed_categories(s, k - 1)
             c == default_categories[k]
         IN IF SeedMissing(NameExists(p.categories, "name", c.name))
            THEN [p EXCEPT !.categories = @ @@ (NextId(DOMAIN @) :> c)]
            ELSE p

\* the loop over default_inventory, up to entry k
RECURSIVE seed_inventory(_, _)
seed_inventory(s, k) ==
    IF k = 0 THEN s
    ELSE LET p == seed_inventory(s, k - 1)
             item == default_inventory[k]
         IN IF SeedMissing(NameExists(p.inventory, "name", item.name))
            THEN [p EXCEPT !.inventory = @ @@ (NextId(DOMAIN @) :> item)]
            ELSE p

RowCount(s) ==
    Cardinality(DOMAIN s.users) + Cardinality(DOMAIN s.categories)
        + Cardinality(DOMAIN s.inventory)

\* initialize_database: one session_scope of its own, opened on the stored
\* database at start-up (the services' session holds nothing pending), every
\* insert guarded by a lookup, one commit at the end of the scope; the scope
\* is the one place that answers an exception with session.rollback()
initialize_database ==
    LET s1 == seed_admin(committed)
        s2 == seed_categories(s1, Len(default_categories))
        s3 == seed_inventory(s2, Len(default_inventory))
    IN /\ IF ~sess.is_active
          THEN /\ sess' = committed
               /\ UNCHANGED committed
               /\ lastOp' = Raised([name |-> "initialize_database", inserted |-> 0])
          ELSE /\ sess = committed
               /\ IF CommitOk(s3)
                  THEN sess' = s3 /\ committed' = s3
                  ELSE UNCHANGED <<sess, committed>>
               /\ lastOp' = [name |-> "initialize_database", ok |-> CommitOk(s3),
                             inserted |-> RowCount(s3) - RowCount(committed)]
       /\ UNCHANGED <<ghosts, active_sessions, now, proc, write_lock, provider>>

\* the database right after create_all: every table empty
EmptyDatabase ==
    [users |-> <<>>, categories |-> <<>>, inventory |-> <<>>,
     inv_txns |-> <<>>, sales |-> {}, sale_items |-> {}, expenses |-> {},
     audit_logs |-> <<>>, is_active |-> TRUE]

InitEmpty ==
    /\ sess = EmptyDatabase
    /\ committed = sess
    /\ ghosts = {}
    /\ lastOp = NoOp
    /\ active_sessions = [u \in {} |-> None]
    /\ now = 0
    /\ proc = <<>>
    /\ write_lock = None
    /\ provider = NoProvider

NextInit ==
    \/ initialize_database
    \/ InventoryDAO_call_update_quantity
    \/ UserDAO_call_deactivate_user

SpecInit == InitEmpty /\ [][NextInit]_vars

(* -------------------------- InventoryService -------------------------- *)
Abs(n) == IF n < 0 THEN -n ELSE n

valid_types == {"restock", "sale", "adjustment"}

\* the transaction types a caller passes: one of the valid ones, one not
TransactionTypes == {"adjustment", "refund"}

\* InventoryService.update_stock: the two validations, the DAO call with its
\* commit, the check of the returned item, the warning
InventoryService_update_stock ==
    \E item_id \in DOMAIN sess.inventory \cup {NoSuchId} :
      \E quantity_change \in QuantityChanges :
        \E transaction_type \in TransactionTypes :
          LET r == InventoryDAO_update_quantity(sess, item_id, quantity_change,
                                                transaction_type, ActingUser)
              item == IF CommitOk(r.s) THEN r.s.inventory[item_id]
                      ELSE committed.inventory[item_id]
              op == [name |-> "update_stock", item_id |-> item_id,
                     quantity_change |-> quantity_change,
                     transaction_type |-> transaction_type]
          IN /\ Len(sess.audit_logs) < MaxStockMoves
             /\ IF \/ ~validate_quantity(Abs(quantity_change))
                   \/ transaction_type \notin valid_types
                THEN /\ lastOp' = op @@ [ok |-> FALSE, stage |-> "validation",
                                         warnings |-> <<>>]
                     /\ UNCHANGED <<sess, committed>>
                ELSE IF ~sess.is_active
                THEN /\ lastOp' = Raised(op @@ [stage |-> "session",
                                                warnings |-> <<>>])
                     /\ UNCHANGED <<sess, committed>>
                ELSE IF ~r.found
                THEN /\ lastOp' = op @@ [ok |-> FALSE, stage |-> "missing",
                                         warnings |-> <<>>]
                     /\ UNCHANGED <<sess, committed>>
                ELSE /\ Commit(r.s)
                     /\ lastOp' = op @@
                          [ok |-> CommitOk(r.s), stage |-> "commit",
                           warnings |->
                               IF CommitOk(r.s)
                                  /\ item.quantity <= item.reorder_level
                               THEN << [quantity |-> item.quantity,
                                        reorder_level |-> item.reorder_level] >>
                               ELSE <<>>]
             /\ UNCHANGED <<ghosts, active_sessions, now, proc, write_lock, provider>>

\* the per-item status of get_inventory_status
status_of(item) ==
    IF item.quantity = 0 THEN "out_of_stock"
    ELSE IF item.quantity <= item.reorder_level THEN "low_stock"
    ELSE "normal"

\* InventoryService.get_inventory_status: the two alert lists (as the sets
\* of the ids they hold) and the status of every item
get_inventory_status(s) ==
    [low_stock_items |->
        {i \in DOMAIN s.inventory :
            s.inventory[i].quantity <= s.inventory[i].reorder_level},
     out_of_stock_items |->
        {i \in DOMAIN s.inventory : s.inventory[i].quantity = 0},
     status |-> [i \in DOMAIN s.inventory |-> status_of(s.inventory[i])]]

InventoryService_get_inventory_status ==
    /\ lastOp' = IF ~sess.is_active
                  THEN Raised([name |-> "get_inventory_status"])
                  ELSE [name |-> "get_inventory_status", ok |-> TRUE]
                          @@ get_inventory_status(sess)
    /\ UNCHANGED <<sess, committed, ghosts, active_sessions, now, proc, write_lock, provider>>

\* the arguments a caller of add_inventory_item passes
NewItemNames == {"Tea"}
NewQuantities == {-1, 0, 1}
NewUnitCosts == {0, 2}
NewReorderLevels == {-1, 1}

\* InventoryService.add_inventory_item: the three validations, then
\* InventoryDAO.create_item with its commit
InventoryService_add_inventory_item ==
    \E name \in NewItemNames, quantity \in NewQuantities,
       unit_cost \in NewUnitCosts, reorder_level \in NewReorderLevels :
        LET r == InventoryDAO_create_item(sess, name, quantity, unit_cost,
                                          reorder_level, ActingUser)
            op == [name |-> "add_inventory_item", quantity |-> quantity,
                   unit_cost |-> unit_cost, reorder_level |-> reorder_level,
                   id |-> r.id]
        IN /\ IF \/ ~validate_quantity(quantity)
                 \/ ~validate_amount(unit_cost)
                 \/ reorder_level < 0
              THEN /\ lastOp' = op @@ [ok |-> FALSE, stage |-> "validation"]
                   /\ UNCHANGED <<sess, committed>>
              ELSE IF ~sess.is_active
              THEN /\ lastOp' = Raised(op @@ [stage |-> "session"])
                   /\ UNCHANGED <<sess, committed>>
              ELSE /\ Len(sess.audit_logs) < MaxItemChanges
                   /\ Commit(r.s)
                   /\ lastOp' = op @@ [ok |-> CommitOk(r.s), stage |-> "commit"]
           /\ UNCHANGED <<ghosts, active_sessions, now, proc, write_lock, provider>>

NextInventory ==
    \/ InventoryService_add_inventory_item
    \/ InventoryService_update_stock
    \/ InventoryService_get_inventory_status

SpecInventory == Init /\ [][NextInventory]_vars

\* the two operations that take stock off the shelf
NextStock ==
    \/ SalesService_create_sale
    \/ InventoryService_update_stock

\* every shelf full at the start; update_stock moves the levels from there
InitStock ==
    /\ Init
    /\ \A i \in ItemIds : sess.inventory[i].quantity = MaxStock

SpecStock == InitStock /\ [][NextStock]_vars

(* ----------------------- ExpenseDAO / ExpenseService ------------------ *)
\* strptime(text, '%Y-%m-%d').date() on the texts the calls present, as a
\* day number; a text outside the table does not parse
ParsedDay == ("2024-01-01" :> 1) @@ ("2024-01-02" :> 2)

validate_date(date_str) == date_str \in DOMAIN ParsedDay

MinutesPerDay == 1440

\* datetime.now().date() as a day number: the calls are made after the days
\* their texts name
Today(t) == 3 + (t \div MinutesPerDay)

\* the date record_expense stores: the parsed text, or today's date when the
\* argument is left out (None) or empty
parsed_date(expense_date, t) ==
    IF expense_date \in {NoText, ""} THEN Today(t) ELSE ParsedDay[expense_date]

\* a date bound to or stored in a DateTime column: midnight of that day
AsDateTime(day) == day * MinutesPerDay

\* SQL BETWEEN: both ends belong to the range
between_open_end(x, lo, hi) == lo <= x /\ x < hi

between(x, lo, hi) == lo <= x /\ x <= hi

RECURSIVE SumOf(_, _)
SumOf(rows, field) ==
    IF rows = {} THEN 0
    ELSE LET r == CHOOSE x \in rows : TRUE
         IN r[field] + SumOf(rows \ {r}, field)

Expense(id, user_id, category_id, amount, expense_date) ==
    [id |-> id, user_id |-> user_id, category_id |-> category_id,
     amount |-> amount, date |-> AsDateTime(expense_date)]

\* ExpenseDAO.create_expense up to its commit
ExpenseDAO_create_expense(s, user_id, category_id, amount, expense_date) ==
    LET id == NextId(Ids(s.expenses))
    IN [s EXCEPT
          !.expenses = @ \cup {Expense(id, user_id, category_id, amount, expense_date)},
          !.audit_logs = Append(@, AuditLog(user_id, "CREATE", "expenses", None))]

get_expense_by_id(s, expense_id) == {e \in s.expenses : e.id = expense_id}

\* the setattr loop of ExpenseDAO.update_expense; a date arrives parsed
apply_expense_update(e, update_data) ==
    [f \in DOMAIN e |->
        IF f \in DOMAIN update_data
        THEN (IF f = "date" THEN AsDateTime(ParsedDay[update_data[f]])
              ELSE update_data[f])
        ELSE e[f]]

\* ExpenseDAO.update_expense up to its commit
ExpenseDAO_update_expense(s, expense_id, update_data, audit_user_id) ==
    IF get_expense_by_id(s, expense_id) = {}
    THEN [s |-> s, found |-> FALSE]
    ELSE [s |-> [s EXCEPT
                   !.expenses = {IF e.id = expense_id
                                 THEN apply_expense_update(e, update_data)
                                 ELSE e : e \in @},
                   !.audit_logs = Append(@,
                       AuditLog(audit_user_id, "UPDATE", "expenses", expense_id))],
          found |-> TRUE]

\* ExpenseDAO.delete_expense up to its commit
ExpenseDAO_delete_expense(s, expense_id, audit_user_id) ==
    IF get_expense_by_id(s, expense_id) = {}
    THEN [s |-> s, found |-> FALSE]
    ELSE [s |-> [s EXCEPT
                   !.expenses = {e \in @ : e.id # expense_id},
                   !.audit_logs = Append(@,
                       AuditLog(audit_user_id, "DELETE", "expenses", expense_id))],
          found |-> TRUE]

\* ExpenseDAO.get_expense_summary_by_category: expenses joined to their
\* category, filtered by date, grouped by the category's name
get_expense_summary_by_category(s, start_date, end_date) ==
    LET joined == {e \in s.expenses :
                      /\ e.category_id \in DOMAIN s.categories
                      /\ between(e.date, AsDateTime(start_date), AsDateTime(end_date))}
        group(name) == {e \in joined : s.categories[e.category_id].name = name}
    IN {[category |-> name,
         total_amount |-> SumOf(group(name), "amount"),
         transaction_count |-> Cardinality(group(name))] :
            name \in {s.categories[e.category_id].name : e \in joined}}

\* the query of record_expense and update_expense for the category
is_expense_category(s, category_id) ==
    /\ category_id \in DOMAIN s.categories
    /\ s.categories[category_id].type = "expense"

\* what the callers pass: amounts, date texts and category ids, valid and not
Amounts == {0, 100, 200}
DateTexts == {"2024-01-01", "2024-01-02", "01/02/2024"}
CategoryIds == {1, 2, 4}
ExpenseIds == {1, 2}
ExpenseUpdates ==
    {[amount |-> 200], [amount |-> 0], [date |-> "2024-01-02"],
     [date |-> "01/02/2024"], [category_id |-> 2], [category_id |-> 4]}

\* the expense_date arguments: the texts, None and the empty text
ExpenseDates == DateTexts \cup {NoText, ""}

ExpenseService_record_expense ==
    \E category_id \in CategoryIds, amount \in Amounts, expense_date \in ExpenseDates :
        LET op == [name |-> "record_expense", category_id |-> category_id,
                   amount |-> amount, expense_date |-> expense_date]
        IN /\ IF \/ ~validate_amount(amount)
                 \/ (expense_date \notin {NoText, ""} /\ ~validate_date(expense_date))
              THEN /\ lastOp' = op @@ [ok |-> FALSE, stage |-> "validation"]
                   /\ UNCHANGED <<sess, committed>>
              ELSE IF ~sess.is_active
              THEN /\ lastOp' = Raised(op @@ [stage |-> "session"])
                   /\ UNCHANGED <<sess, committed>>
              ELSE IF ~is_expense_category(sess, category_id)
              THEN /\ lastOp' = op @@ [ok |-> FALSE, stage |-> "validation"]
                   /\ UNCHANGED <<sess, committed>>
              ELSE LET s == ExpenseDAO_create_expense(sess, ActingUser, category_id,
                                                      amount,
                                                      parsed_date(expense_date, now))
                   IN /\ Len(sess.audit_logs) < MaxExpenses
                      /\ Commit(s)
                      /\ lastOp' = op @@ [ok |-> CommitOk(s), stage |-> "commit"]
           /\ UNCHANGED <<ghosts, active_sessions, now, proc, write_lock, provider>>

ExpenseService_update_expense ==
    \E expense_id \in ExpenseIds, update_data \in ExpenseUpdates :
        LET op == [name |-> "update_expense", expense_id |-> expense_id,
                   update_data |-> update_data]
            r == ExpenseDAO_update_expense(sess, expense_id, update_data, ActingUser)
        IN /\ IF \/ ("amount" \in DOMAIN update_data
                       /\ ~validate_amount(update_data.amount))
                 \/ ("date" \in DOMAIN update_data
                       /\ ~validate_date(update_data.date))
              THEN /\ lastOp' = op @@ [ok |-> FALSE, stage |-> "validation"]
                   /\ UNCHANGED <<sess, committed>>
              ELSE IF ~sess.is_active
              THEN /\ lastOp' = Raised(op @@ [stage |-> "session"])
                   /\ UNCHANGED <<sess, committed>>
              ELSE IF "category_id" \in DOMAIN update_data
                         /\ ~is_expense_category(sess, update_data.category_id)
              THEN /\ lastOp' = op @@ [ok |-> FALSE, stage |-> "validation"]
                   /\ UNCHANGED <<sess, committed>>
              ELSE IF ~r.found
              THEN /\ lastOp' = op @@ [ok |-> FALSE, stage |-> "none"]
                   /\ UNCHANGED <<sess, committed>>
              ELSE /\ Len(sess.audit_logs) < MaxExpenses
                   /\ Commit(r.s)
                   /\ lastOp' = op @@ [ok |-> CommitOk(r.s), stage |-> "commit"]
           /\ UNCHANGED <<ghosts, active_sessions, now, proc, write_lock, provider>>

ExpenseService_delete_expense ==
    \E expense_id \in ExpenseIds :
        LET r == ExpenseDAO_delete_expense(sess, expense_id, ActingUser)
        IN /\ IF ~sess.is_active \/ ~r.found
              THEN UNCHANGED <<sess, committed>>
              ELSE /\ Len(sess.audit_logs) < MaxExpenses
                   /\ Commit(r.s)
           /\ lastOp' = IF ~sess.is_active
                      THEN Raised([name |-> "delete_expense",
                                   expense_id |-> expense_id])
                      ELSE [name |-> "delete_expense", expense_id |-> expense_id,
                            ok |-> r.found /\ CommitOk(r.s)]
           /\ UNCHANGED <<ghosts, active_sessions, now, proc, write_lock, provider>>

\* the category a summary is asked for; None when the argument is left out
SummaryCategories == {None, 1, 2}

\* ExpenseService.get_expense_summary: both dates validated and parsed, the
\* order of the two checked, the totals added up from the DAO's groups
ExpenseService_get_expense_summary ==
    \E start_date \in DateTexts, end_date \in DateTexts,
       category_id \in SummaryCategories :
        LET op == [name |-> "get_expense_summary", start_date |-> start_date,
                   end_date |-> end_date, category_id |-> category_id]
        IN /\ IF \/ ~validate_date(start_date)
                 \/ ~validate_date(end_date)
                 \/ ParsedDay[start_date] > ParsedDay[end_date]
              THEN lastOp' = op @@ [ok |-> FALSE]
              ELSE IF ~sess.is_active
              THEN lastOp' = Raised(op)
              ELSE LET summary == get_expense_summary_by_category(
                                      sess, ParsedDay[start_date], ParsedDay[end_date])
                   IN lastOp' = op @@
                        [ok |-> TRUE,
                         total_amount |-> SumOf(summary, "total_amount"),
                         total_transactions |-> SumOf(summary, "transaction_count"),
                         by_category |-> summary]
           /\ UNCHANGED <<sess, committed, ghosts, active_sessions, now, proc, write_lock, provider>>

NextExpenses ==
    \/ ExpenseService_record_expense
    \/ ExpenseService_update_expense
    \/ ExpenseService_delete_expense
    \/ ExpenseService_get_expense_summary

SpecExpenses == InitUsers /\ [][NextExpenses]_vars

(* --------------------------- ServiceProvider -------------------------- *)
\* the six services _initialize_services builds, by name
ServiceNames == {"auth", "user", "expense", "inventory", "sales", "reporting"}

\* the names a caller asks get_service for: the six, and one that is none
RequestedNames == ServiceNames \cup {"billing"}

\* ServiceProvider.__init__: raises when _instance is set; otherwise the
\* new object (numbered in order of construction) exists, and _instance is
\* left as it was
ServiceProvider_init(p, how) ==
    IF p._instance # None
    THEN [p |-> p, raised |-> TRUE, instance |-> None]
    ELSE [p |-> [p EXCEPT !.constructed = Append(@, how)],
          raised |-> FALSE, instance |-> Len(p.constructed) + 1]

\* ServiceProvider() called directly
ServiceProvider_construct ==
    LET r == ServiceProvider_init(provider, "direct")
    IN /\ Len(provider.constructed) < MaxInstances
       /\ provider' = r.p
       /\ lastOp' = [name |-> "ServiceProvider", ok |-> ~r.raised,
                     instance |-> r.instance]
       /\ UNCHANGED <<sess, committed, ghosts, active_sessions, now, proc, write_lock>>

\* ServiceProvider.get_instance: construct and remember an instance when
\* none is remembered, return the remembered one
ServiceProvider_get_instance ==
    LET r == ServiceProvider_init(provider, "get_instance")
    IN /\ IF provider._instance = None
          THEN /\ Len(provider.constructed) < MaxInstances
               /\ provider' = [r.p EXCEPT !._instance = r.instance]
               /\ lastOp' = [name |-> "get_instance", ok |-> TRUE,
                             instance |-> r.instance]
          ELSE /\ UNCHANGED provider
               /\ lastOp' = [name |-> "get_instance", ok |-> TRUE,
                             instance |-> provider._instance]
       /\ UNCHANGED <<sess, committed, ghosts, active_sessions, now, proc, write_lock>>

\* get_service on one of the constructed objects
ServiceProvider_get_service ==
    \E i \in 1..Len(provider.constructed), service_name \in RequestedNames :
        /\ lastOp' = [name |-> "get_service", ok |-> service_name \in ServiceNames,
                      instance |-> i, service_name |-> service_name]
        /\ UNCHANGED <<sess, committed, ghosts, active_sessions, now, proc,
                       write_lock, provider>>

NextProvider ==
    \/ ServiceProvider_construct
    \/ ServiceProvider_get_instance
    \/ ServiceProvider_get_service

SpecProvider == InitUsers /\ [][NextProvider]_vars

(* ------------------------- top-selling items -------------------------- *)
\* the methods SaleDAO defines; get_top_selling_items is not among them
SaleDAO_methods ==
    {"create_sale", "get_sale_by_id", "get_sales_by_date_range",
     "get_daily_sales_summary", "get_sales_report", "void_sale"}

\* the periods a caller asks a report for: a proper one, one with its ends
\* swapped, one with a malformed date
ReportRanges ==
    {<<"2024-01-01", "2024-01-02">>, <<"2024-01-02", "2024-01-01">>,
     <<"01/02/2024", "2024-01-02">>}

\* SalesService.get_top_selling_items: both dates validated and parsed, then
\* the call of self.sale_dao.get_top_selling_items, which raises
\* AttributeError when SaleDAO has no such method
SalesService_get_top_selling_items ==
    \E range \in ReportRanges :
        LET start_date == range[1]
            end_date == range[2]
            op == [name |-> "get_top_selling_items", start_date |-> start_date,
                   end_date |-> end_date]
        IN /\ IF ~validate_date(start_date) \/ ~validate_date(end_date)
              THEN lastOp' = op @@ [ok |-> FALSE, stage |-> "validation",
                                    error |-> "ValueError"]
              ELSE lastOp' = op @@
                     [ok |-> "get_top_selling_items" \in SaleDAO_methods,
                      stage |-> "dao", error |-> "AttributeError"]
           /\ UNCHANGED <<sess, committed, ghosts, active_sessions, now, proc,
                          write_lock, provider>>

NextTopSelling ==
    \/ SalesService_create_sale
    \/ SalesService_get_top_selling_items

SpecTopSelling == InitStock /\ [][NextTopSelling]_vars

(* ------------------- hash_password / verify_password ------------------ *)
\* the passwords presented, and values of secrets.token_hex, which all have
\* one length
PasswordTexts == {"secret", "secret1", "Secret"}
TokenHexValues == {"a1", "1a", "b2", "2b"}

\* the results of the calls of hash_password made so far
HashCalls == IF "calls" \in DOMAIN lastOp THEN lastOp.calls ELSE <<>>

\* hash_password: a salt the generator has not handed out before, the
\* digest of the password with that salt
security_hash_password ==
    \E password \in PasswordTexts, salt \in TokenHexValues :
        /\ Len(HashCalls) < MaxHashes
        /\ \A k \in 1..Len(HashCalls) : HashCalls[k].salt # salt
        /\ lastOp' = [name |-> "hash_password", ok |-> TRUE,
                      calls |-> Append(HashCalls,
                                  [password |-> password, salt |-> salt,
                                   stored |-> hash_of(password, salt)])]
        /\ UNCHANGED <<sess, committed, ghosts, active_sessions, now, proc,
                       write_lock, provider>>

\* verify_password of a candidate against one of the stored values
security_verify_password ==
    \E k \in 1..Len(HashCalls), password \in PasswordTexts :
        /\ lastOp' = [name |-> "verify_password", ok |-> TRUE,
                      calls |-> HashCalls, against |-> k, password |-> password,
                      result |-> verify_password(password, HashCalls[k].stored)]
        /\ UNCHANGED <<sess, committed, ghosts, active_sessions, now, proc,
                       write_lock, provider>>

NextHash ==
    \/ security_hash_password
    \/ security_verify_password

SpecHash == InitUsers /\ [][NextHash]_vars

(* ---------- InventoryDAO.update_item and the calls addressed to a
   missing id ---------- *)

\* InventoryDAO.update_item: the row looked up by id; None when there is
\* none; otherwise every key of the patch the row has is set and an
\* UPDATE audit row is added
InventoryDAO_update_item_blind(s, item_id, update_data, audit_user_id) ==
    [s |-> [s EXCEPT
              !.audit_logs = Append(@,
                  AuditLog(audit_user_id, "UPDATE", "inventory_items", item_id))],
     found |-> TRUE]
InventoryDAO_update_item(s, item_id, update_data, audit_user_id) ==
    IF item_id \notin DOMAIN s.inventory
    THEN [s |-> s, found |-> FALSE]
    ELSE [s |-> [s EXCEPT
                   !.inventory[item_id] =
                       [f \in DOMAIN @ |->
                           IF f \in DOMAIN update_data
                           THEN update_data[f] ELSE @[f]],
                   !.audit_logs = Append(@,
                       AuditLog(audit_user_id, "UPDATE", "inventory_items",
                                item_id))],
          found |-> TRUE]

\* the patches an update_item call carries
ItemUpdates == {[reorder_level |-> 0], [name |-> "Decaf"]}

\* callers of the DAO mutations that name an id the table holds no row for;
\* each call is the whole method, its commit included when it gets that far
UserDAO_update_user_missing ==
    \E user_id \in TargetIds \ DOMAIN sess.users, update_data \in UpdateData :
        LET r == UserDAO_update_user(sess, user_id, update_data, ActingUser)
        IN /\ Cardinality(Ids(sess.sales)) < MaxSales
           /\ IF ~sess.is_active \/ ~r.found
              THEN UNCHANGED <<sess, committed>> ELSE Commit(r.s)
           /\ lastOp' = IF ~sess.is_active
                      THEN Raised([name |-> "update_user", user_id |-> user_id])
                      ELSE [name |-> "update_user", ok |-> r.found /\ CommitOk(r.s),
                            user_id |-> user_id]
           /\ UNCHANGED <<ghosts, active_sessions, now, proc, write_lock, provider>>

UserDAO_update_password_missing ==
    \E user_id \in TargetIds \ DOMAIN sess.users :
        LET r == UserDAO_update_password(sess, user_id,
                     hash_of("new-password", "salt-n"), ActingUser)
        IN /\ Cardinality(Ids(sess.sales)) < MaxSales
           /\ IF ~sess.is_active \/ ~r.found
              THEN UNCHANGED <<sess, committed>> ELSE Commit(r.s)
           /\ lastOp' = IF ~sess.is_active
                      THEN Raised([name |-> "update_password", user_id |-> user_id])
                      ELSE [name |-> "update_password", ok |-> r.found /\ CommitOk(r.s),
                            user_id |-> user_id]
           /\ UNCHANGED <<ghosts, active_sessions, now, proc, write_lock, provider>>

UserDAO_deactivate_user_missing ==
    \E user_id \in TargetIds \ DOMAIN sess.users :
        LET r == UserDAO_deactivate_user(sess, user_id, ActingUser)
        IN /\ Cardinality(Ids(sess.sales)) < MaxSales
           /\ IF ~sess.is_active \/ ~r.found
              THEN UNCHANGED <<sess, committed>> ELSE Commit(r.s)
           /\ lastOp' = IF ~sess.is_active
                      THEN Raised([name |-> "deactivate_user", user_id |-> user_id])
                      ELSE [name |-> "deactivate_user", ok |-> r.found /\ CommitOk(r.s),
                            user_id |-> user_id]
           /\ UNCHANGED <<ghosts, active_sessions, now, proc, write_lock, provider>>

InventoryDAO_update_quantity_missing ==
    \E item_id \in (ItemIds \cup {NoSuchId}) \ DOMAIN sess.inventory :
      \E quantity_change \in QuantityChanges :
        LET r == InventoryDAO_update_quantity(sess, item_id, quantity_change,
                                              "adjustment", ActingUser)
        IN /\ Cardinality(Ids(sess.sales)) < MaxSales
           /\ IF ~sess.is_active \/ ~r.found
              THEN UNCHANGED <<sess, committed>> ELSE Commit(r.s)
           /\ lastOp' = IF ~sess.is_active
                      THEN Raised([name |-> "update_quantity", item_id |-> item_id,
                                   quantity_change |-> quantity_change])
                      ELSE [name |-> "update_quantity",
                            ok |-> r.found /\ CommitOk(r.s),
                            item_id |-> item_id, quantity_change |-> quantity_change]
           /\ UNCHANGED <<ghosts, active_sessions, now, proc, write_lock, provider>>

InventoryDAO_update_item_missing ==
    \E item_id \in (ItemIds \cup {NoSuchId}) \ DOMAIN sess.inventory :
      \E update_data \in ItemUpdates :
        LET r == InventoryDAO_update_item(sess, item_id, update_data, ActingUser)
        IN /\ Cardinality(Ids(sess.sales)) < MaxSales
           /\ IF ~sess.is_active \/ ~r.found
              THEN UNCHANGED <<sess, committed>> ELSE Commit(r.s)
           /\ lastOp' = IF ~sess.is_active
                      THEN Raised([name |-> "update_item", item_id |-> item_id])
                      ELSE [name |-> "update_item", ok |-> r.found /\ CommitOk(r.s),
                            item_id |-> item_id]
           /\ UNCHANGED <<ghosts, active_sessions, now, proc, write_lock, provider>>

ExpenseDAO_update_expense_missing ==
    \E expense_id \in ExpenseIds \ Ids(sess.expenses) :
      \E update_data \in ExpenseUpdates :
        LET r == ExpenseDAO_update_expense(sess, expense_id, update_data, ActingUser)
        IN /\ Cardinality(Ids(sess.sales)) < MaxSales
           /\ IF ~sess.is_active \/ ~r.found
              THEN UNCHANGED <<sess, committed>> ELSE Commit(r.s)
           /\ lastOp' = IF ~sess.is_active
                      THEN Raised([name |-> "update_expense", expense_id |-> expense_id])
                      ELSE [name |-> "update_expense", ok |-> r.found /\ CommitOk(r.s),
                            expense_id |-> expense_id]
           /\ UNCHANGED <<ghosts, active_sessions, now, proc, write_lock, provider>>

ExpenseDAO_delete_expense_missing ==
    \E expense_id \in ExpenseIds \ Ids(sess.expenses) :
        LET r == ExpenseDAO_delete_expense(sess, expense_id, ActingUser)
        IN /\ Cardinality(Ids(sess.sales)) < MaxSales
           /\ IF ~sess.is_active \/ ~r.found
              THEN UNCHANGED <<sess, committed>> ELSE Commit(r.s)
           /\ lastOp' = IF ~sess.is_active
                      THEN Raised([name |-> "delete_expense", expense_id |-> expense_id])
                      ELSE [name |-> "delete_expense", ok |-> r.found /\ CommitOk(r.s),
                            expense_id |-> expense_id]
           /\ UNCHANGED <<ghosts, active_sessions, now, proc, write_lock, provider>>

NextMissing ==
    \/ SalesService_create_sale
    \/ SalesService_void_sale
    \/ UserDAO_update_user_missing
    \/ UserDAO_update_password_missing
    \/ UserDAO_deactivate_user_missing
    \/ ExpenseDAO_update_expense_missing
    \/ ExpenseDAO_delete_expense_missing
    \/ InventoryDAO_update_quantity_missing
    \/ InventoryDAO_update_item_missing

SpecMissing == InitStock /\ [][NextMissing]_vars

(* ---------- password reset by stored token: UserDAO.verify_reset_token,
   UserService.initiate_password_reset, reset_password, change_password
   ---------- *)

\* UserDAO.verify_reset_token: the first active user whose stored token
\* equals the one given and whose expiry is later than the current time
UserDAO_verify_reset_token(s, reset_token, t) ==
    LET found == {u \in DOMAIN s.users :
                     /\ s.users[u].reset_token = reset_token
                     /\ s.users[u].reset_token_expiry # None
                     /\ s.users[u].reset_token_expiry > t
                     /\ s.users[u].is_active}
    IN IF found = {} THEN None ELSE CHOOSE u \in found : \A v \in found : u <= v

\* the users whose passwords are reset or changed, and the token each one's
\* reset request stores: a token names its user
ResetUsers == {2, 3}
\* generate_reset_token(user_id) at time t: a JWT over the user id, the
\* expiry t + 24 hours and the purpose, so a token names its user and the
\* time it was made
ResetToken(user_id, t) ==
    "token-" \o ToString(user_id) \o "-" \o ToString(t + 24 * 60)

\* the tokens a caller of reset_password presents: every one that can have
\* been made for a user, and one that never was
IssueTimes == {0} \cup Lapses
ResetTokens ==
    {ResetToken(u, t) : u \in ResetUsers, t \in IssueTimes} \cup {"token-x"}

\* minutes a stored token stays good
TokenLifetime == 31

\* a caller of UserDAO.set_reset_token storing a user's token
UserDAO_store_reset_token ==
    \E user_id \in ResetUsers :
        LET r == UserDAO_set_reset_token(sess, user_id, ResetToken(user_id, now),
                                         now + TokenLifetime)
        IN /\ IF ~sess.is_active \/ ~r.found
              THEN UNCHANGED <<sess, committed>> ELSE Commit(r.s)
           /\ lastOp' = IF ~sess.is_active
                      THEN Raised([name |-> "set_reset_token", user_id |-> user_id])
                      ELSE [name |-> "set_reset_token", ok |-> r.found /\ CommitOk(r.s),
                            user_id |-> user_id]
           /\ UNCHANGED <<ghosts, active_sessions, now, proc, write_lock, provider>>

\* UserService.initiate_password_reset: None for an unknown email; for a
\* known one generate_reset_token is called without the user id it
\* requires, the TypeError is logged and raised again, nothing is stored
UserService_initiate_password_reset ==
    \E email \in {"staff@test.com", "new@test.com"} :
        /\ lastOp' = IF ~sess.is_active
                      THEN Raised([name |-> "initiate_password_reset",
                                   email |-> email, stage |-> "session"])
                      ELSE [name |-> "initiate_password_reset", ok |-> FALSE,
                            email |-> email,
                            stage |-> IF get_user_by_email(sess, email) = None
                                      THEN "unknown" ELSE "raise"]
        /\ UNCHANGED <<sess, committed, ghosts, active_sessions, now, proc,
                       write_lock, provider>>

\* UserService.reset_password: the token looked up, the new password
\* validated (a ValueError otherwise), the password updated by the user
\* themselves
UserService_reset_password ==
    \E reset_token \in ResetTokens, new_password \in RegPasswords :
        LET u == UserDAO_verify_reset_token(sess, reset_token, now)
            op == [name |-> "reset_password", reset_token |-> reset_token,
                   cleared |-> reset_token, user_id |-> u,
                   again |-> /\ lastOp.name \in {"reset_password", "change_password"}
                             /\ lastOp.ok
                             /\ lastOp.cleared = reset_token]
        IN /\ IF ~sess.is_active
              THEN /\ lastOp' = Raised(op @@ [stage |-> "session"])
                   /\ UNCHANGED <<sess, committed>>
              ELSE IF u = None
              THEN /\ lastOp' = op @@ [ok |-> FALSE, stage |-> "token"]
                   /\ UNCHANGED <<sess, committed>>
              ELSE IF ~validate_password(new_password)
              THEN /\ lastOp' = op @@ [ok |-> FALSE, stage |-> "validation"]
                   /\ UNCHANGED <<sess, committed>>
              ELSE LET r == UserDAO_update_password(sess, u,
                                hash_of(new_password, "salt-r"), u)
                   IN /\ Len(sess.audit_logs) < MaxUserChanges
                      /\ IF r.found THEN Commit(r.s)
                         ELSE UNCHANGED <<sess, committed>>
                      /\ lastOp' = op @@ [ok |-> r.found /\ CommitOk(r.s),
                                          stage |-> "commit"]
           /\ UNCHANGED <<ghosts, active_sessions, now, proc, write_lock, provider>>

\* UserService.change_password: the user looked up, the current password
\* verified, the new one validated (a ValueError for each failure), the
\* password updated by the user themselves
UserService_change_password ==
    \E user_id \in ResetUsers, current_password \in {"staff123", "Password1"},
       new_password \in RegPasswords :
        LET op == [name |-> "change_password", user_id |-> user_id,
                   cleared |-> IF user_id \in DOMAIN sess.users
                               THEN sess.users[user_id].reset_token ELSE NoText]
        IN /\ IF ~sess.is_active
              THEN /\ lastOp' = Raised(op @@ [stage |-> "session"])
                   /\ UNCHANGED <<sess, committed>>
              ELSE IF get_user_by_id(sess, user_id) = None
              THEN /\ lastOp' = op @@ [ok |-> FALSE, stage |-> "missing"]
                   /\ UNCHANGED <<sess, committed>>
              ELSE IF ~verify_password(current_password,
                                       sess.users[user_id].password_hash)
              THEN /\ lastOp' = op @@ [ok |-> FALSE, stage |-> "current"]
                   /\ UNCHANGED <<sess, committed>>
              ELSE IF ~validate_password(new_password)
              THEN /\ lastOp' = op @@ [ok |-> FALSE, stage |-> "validation"]
                   /\ UNCHANGED <<sess, committed>>
              ELSE LET r == UserDAO_update_password(sess, user_id,
                                hash_of(new_password, "salt-c"), user_id)
                   IN /\ Len(sess.audit_logs) < MaxUserChanges
                      /\ IF r.found THEN Commit(r.s)
                         ELSE UNCHANGED <<sess, committed>>
                      /\ lastOp' = op @@ [ok |-> r.found /\ CommitOk(r.s),
                                          stage |-> "commit"]
           /\ UNCHANGED <<ghosts, active_sessions, now, proc, write_lock, provider>>

NextReset ==
    \/ UserDAO_store_reset_token
    \/ UserService_initiate_password_reset
    \/ UserService_reset_password
    \/ UserService_change_password
    \/ UserDAO_call_deactivate_user
    \/ TickOnce

SpecReset == InitUsers /\ [][NextReset]_vars

(* ---------- InventoryDAO.update_quantity called with each transaction
   type ---------- *)

\* the quantity changes and the types a stock movement is booked with
StockDeltas == {-1, 0, 1}

\* a caller of InventoryDAO.update_quantity; the commit is part of the call
InventoryDAO_call_update_quantity_typed ==
    \E item_id \in DOMAIN sess.inventory, quantity_change \in StockDeltas,
       transaction_type \in valid_types :
        LET r == InventoryDAO_update_quantity(sess, item_id, quantity_change,
                                              transaction_type, ActingUser)
            op == [name |-> "update_quantity", item_id |-> item_id,
                   quantity_change |-> quantity_change,
                   transaction_type |-> transaction_type]
        IN /\ Len(sess.audit_logs) < MaxItemChanges
           /\ IF ~sess.is_active
              THEN /\ lastOp' = Raised(op)
                   /\ UNCHANGED <<sess, committed>>
              ELSE /\ r.found
                   /\ Commit(r.s)
                   /\ lastOp' = op @@ [ok |-> CommitOk(r.s)]
           /\ UNCHANGED <<ghosts, active_sessions, now, proc, write_lock, provider>>

\* a caller of InventoryDAO.update_item on an item that is there
InventoryDAO_call_update_item ==
    \E item_id \in DOMAIN sess.inventory, update_data \in ItemUpdates :
        LET r == InventoryDAO_update_item(sess, item_id, update_data, ActingUser)
            op == [name |-> "update_item", item_id |-> item_id,
                   update_data |-> update_data]
        IN /\ Len(sess.audit_logs) < MaxItemChanges
           /\ IF ~sess.is_active
              THEN /\ lastOp' = Raised(op)
                   /\ UNCHANGED <<sess, committed>>
              ELSE /\ r.found
                   /\ Commit(r.s)
                   /\ lastOp' = op @@ [ok |-> CommitOk(r.s)]
           /\ UNCHANGED <<ghosts, active_sessions, now, proc, write_lock, provider>>

NextRestock ==
    \/ InventoryDAO_call_update_quantity_typed
    \/ InventoryDAO_call_update_item
    \/ TickOnce

SpecRestock == InitStock /\ [][NextRestock]_vars

(* ---------- the four operations that move stock ---------- *)

NextQuantity ==
    \/ InventoryService_add_inventory_item
    \/ InventoryService_update_stock
    \/ SalesService_create_sale
    \/ SalesService_void_sale

SpecQuantity == Init /\ [][NextQuantity]_vars

(* ---------- sessions of users who are deactivated ---------- *)

NextDeactivate ==
    \/ AuthService_login
    \/ AuthService_validate_session
    \/ AuthService_check_permission
    \/ UserDAO_call_deactivate_user
    \/ UserDAO_call_reactivate_user

SpecDeactivate == InitUsers /\ [][NextDeactivate]_vars

(* ---------- the role of a live session and the role on the row ---------- *)

NextRoleSync ==
    \/ AuthService_login
    \/ AuthService_change_user_role
    \/ UserService_update_user_profile

SpecRoleSync == InitUsers /\ [][NextRoleSync]_vars

(* ---------- create_sale by several writers, one session each ---------- *)
\* Each process runs SalesService.create_sale once, in its own session and
\* transaction, against the SQLite database `committed`.  The shared session
\* `sess` is not used here and keeps the database as it was seeded.
Procs == {1, 2}

ConcLineInputs ==
    {l \in ValidLines : l.quantity > 0}

\* `loaded` is the identity map of the process's session: the quantity of
\* every InventoryItem object it has loaded, as loaded or as the process has
\* set it since; `dirty` are the items whose quantity it has set
IdleProc ==
    [pc |-> "idle", items |-> <<>>, k |-> 0, sale_id |-> None,
     loaded |-> <<>>, dirty |-> {}, rows |-> <<>>]

\* query(InventoryItem).filter_by(id=i).first(), with or without
\* with_for_update(): a row the session has loaded before comes back as the
\* object of the identity map, its attributes untouched by the new SELECT;
\* only a row not loaded yet is read from the database
ReadQuantity(p, i) ==
    IF i \in DOMAIN proc[p].loaded THEN proc[p].loaded[i]
    ELSE committed.inventory[i].quantity

\* SQLite has one lock for writers, on the whole database file: a
\* transaction takes it with its first INSERT, UPDATE or DELETE and holds it
\* until it ends.  The SELECT that with_for_update() becomes takes none.
WriteLockFree(owner, p) == owner \in {None, p}

Conc_call(p) ==
    /\ proc[p].pc = "idle"
    /\ \E n \in 1..MaxConcLines : \E items \in [1..n -> ConcLineInputs] :
          proc' = [proc EXCEPT ![p] = [@ EXCEPT !.pc = "validate",
                                                !.items = items, !.k = 1]]
    /\ UNCHANGED <<sess, committed, ghosts, lastOp, active_sessions, now, write_lock, provider>>

\* one round of the validation loop of SalesService.create_sale;
\* get_item_by_id leaves the item in the identity map
Conc_validate(p) ==
    /\ proc[p].pc = "validate"
    /\ LET item == proc[p].items[proc[p].k]
           iid == item.inventory_item_id
           seen == IF iid \in DOMAIN committed.inventory
                   THEN (iid :> ReadQuantity(p, iid)) @@ proc[p].loaded
                   ELSE proc[p].loaded
       IN IF \/ ~validate_quantity(item.quantity)
             \/ ~validate_amount(item.unit_price)
          THEN proc' = [proc EXCEPT ![p].pc = "rejected"]
          ELSE IF \/ iid \notin DOMAIN committed.inventory
                  \/ ReadQuantity(p, iid) < item.quantity
          THEN proc' = [proc EXCEPT ![p] = [@ EXCEPT !.pc = "rejected",
                                                     !.loaded = seen]]
          ELSE proc' = [proc EXCEPT ![p] =
                  [@ EXCEPT !.loaded = seen,
                            !.pc = IF proc[p].k = Len(proc[p].items)
                                   THEN "insert" ELSE "validate",
                            !.k = IF proc[p].k = Len(proc[p].items)
                                  THEN @ ELSE @ + 1]]
    /\ UNCHANGED <<sess, committed, ghosts, lastOp, active_sessions, now, write_lock, provider>>

\* SaleDAO.create_sale: the Sale row is added and flushed.  The INSERT takes
\* the write lock; while another transaction holds it the INSERT waits, and
\* when the wait runs out it raises OperationalError (database is locked)
Conc_insert(p) ==
    /\ proc[p].pc = "insert"
    /\ IF WriteLockFree(write_lock, p)
       THEN /\ write_lock' = p
            /\ proc' = [proc EXCEPT ![p] =
                          [@ EXCEPT !.pc = "line", !.k = 1,
                                    !.sale_id = NextId(Ids(committed.sales))]]
       ELSE /\ UNCHANGED write_lock
            /\ proc' = [proc EXCEPT ![p].pc = "locked"]
    /\ UNCHANGED <<sess, committed, ghosts, lastOp, active_sessions, now, provider>>

\* one round of the loop of SaleDAO.create_sale: the item queried again,
\* stock check, SaleItem, decrement.  A ValueError leaves the transaction
\* open, and with it the write lock taken
Conc_line(p) ==
    /\ proc[p].pc = "line"
    /\ LET item == proc[p].items[proc[p].k]
           iid == item.inventory_item_id
       IN IF InsufficientStock(ReadQuantity(p, iid), item.quantity)
          THEN proc' = [proc EXCEPT ![p].pc = "failed"]
          ELSE proc' = [proc EXCEPT ![p] =
                  [@ EXCEPT
                     !.loaded = (iid :> Decrement(ReadQuantity(p, iid), item.quantity)) @@ @,
                     !.dirty = @ \cup {iid},
                     !.rows = Append(@, item),
                     !.k = @ + 1,
                     !.pc = IF proc[p].k = Len(proc[p].items)
                            THEN "commit" ELSE "line"]]
    /\ UNCHANGED <<sess, committed, ghosts, lastOp, active_sessions, now, write_lock, provider>>

RECURSIVE AddRows(_, _, _, _)
AddRows(table, rows, k, sale_id) ==
    IF k > Len(rows) THEN table
    ELSE AddRows(table \cup {[id |-> NextId(Ids(table)), sale_id |-> sale_id,
                             inventory_item_id |-> rows[k].inventory_item_id,
                             quantity |-> rows[k].quantity,
                             unit_price |-> rows[k].unit_price]},
                 rows, k + 1, sale_id)

\* session.commit(): the transaction's rows reach the database, every item
\* it changed is written with the quantity its object holds (UPDATE ... SET
\* quantity = <value>), and the write lock is released
Conc_commit(p) ==
    /\ proc[p].pc = "commit"
    /\ committed' = [committed EXCEPT
          !.inventory = [i \in DOMAIN @ |->
                            IF i \in proc[p].dirty
                            THEN [@[i] EXCEPT !.quantity = proc[p].loaded[i]]
                            ELSE @[i]],
          !.sales = @ \cup {[id |-> proc[p].sale_id, user_id |-> ActingUser,
                             total_amount |-> total_amount_of(proc[p].items)]},
          !.sale_items = AddRows(@, proc[p].rows, 1, proc[p].sale_id),
          !.audit_logs = @ \o
              [k \in 1..Len(proc[p].rows) |->
                  AuditLog(ActingUser, "UPDATE", "inventory_items",
                           proc[p].rows[k].inventory_item_id)]
              \o <<AuditLog(ActingUser, "CREATE", "sales", proc[p].sale_id)>>]
    /\ write_lock' = None
    /\ proc' = [proc EXCEPT ![p].pc = "done"]
    /\ UNCHANGED <<sess, ghosts, lastOp, active_sessions, now, provider>>

InitConc ==
    /\ sess \in SeedDatabases
    /\ committed = sess
    /\ ghosts = {}
    /\ lastOp = NoOp
    /\ active_sessions = [u \in {} |-> None]
    /\ now = 0
    /\ proc = [p \in Procs |-> IdleProc]
    /\ write_lock = None
    /\ provider = NoProvider

NextConc ==
    \E p \in Procs :
        \/ Conc_call(p)
        \/ Conc_validate(p)
        \/ Conc_insert(p)
        \/ Conc_line(p)
        \/ Conc_commit(p)

SpecConc == InitConc /\ [][NextConc]_vars

(* ------------------------------ claims -------------------------------- *)
UnitsOf(rows, i) == QtySet({si \in rows : si.inventory_item_id = i})

\* C1: a create_sale that fails on a line leaves nothing behind: no Sale row
\* and no SaleItem row of the failed attempt is ever in the database, and no
\* unit of stock is ever missing from the database on its account, also
\* after later operations have committed on the shared session.
C1_FailedSaleLeavesNothing ==
    \A id \in ghosts :
        /\ id \notin Ids(committed.sales)
        /\ ItemsOfSale(committed, id) = {}
        /\ \A i \in DOMAIN committed.inventory :
               UnitsOf(ItemsOfSale(committed, id), i) = 0

\* C2: a successful create_sale takes exactly the requested quantity of every
\* item, a void_sale puts back exactly the quantity of every line of the sale,
\* and a void_sale directly after the create_sale of the same sale leaves every
\* on-hand quantity as it was before the sale.
C2_CreateThenVoidRestoresStock ==
    [][/\ (lastOp'.name = "create_sale" /\ lastOp'.ok) =>
            /\ Cardinality(ItemsOfSale(sess', lastOp'.sale_id)) = lastOp'.lines
            /\ \A i \in DOMAIN sess.inventory :
                  /\ sess'.inventory[i].quantity = sess.inventory[i].quantity
                         - lastOp'.requested[i]
                  /\ UnitsOf(ItemsOfSale(sess', lastOp'.sale_id), i)
                         = lastOp'.requested[i]
       /\ (lastOp'.name = "void_sale" /\ lastOp'.ok) =>
            \A i \in DOMAIN sess.inventory :
                sess'.inventory[i].quantity = sess.inventory[i].quantity
                    + UnitsOf(ItemsOfSale(sess, lastOp'.sale_id), i)
       /\ (lastOp'.name = "void_sale" /\ lastOp'.ok /\ lastOp'.after_create) =>
            InventoryOf(sess') = lastOp.inv_before
      ]_vars

C2_Witness ==
    /\ lastOp.name = "void_sale"
    /\ lastOp.ok
    /\ lastOp.after_create
    /\ lastOp.units > 0

\* C3: every Sale in the database has a total_amount equal to the sum of
\* quantity x unit_price over its SaleItem rows in the database.
C3_TotalIsSumOfLines ==
    \A sale \in committed.sales :
        sale.total_amount = SumSet(ItemsOfSale(committed, sale.id))

\* C5: every Sale in the database owns at least one SaleItem (create_sale
\* with an empty list of items creates nothing).
C5_SaleOwnsAnItem ==
    \A sale \in committed.sales : ItemsOfSale(committed, sale.id) # {}

\* C4: two interleaved create_sale executions on the same item never both take
\* stock they both saw: the database quantity of every item is the seeded
\* quantity minus what the executions that committed requested, it is never
\* negative, and two executions that together request more of an item than
\* was seeded never both commit.
Succeeded(p) == proc[p].pc = "done"

RequestedBy(p, i) == QtyFor(proc[p].items, i, Len(proc[p].items))

RECURSIVE SoldTo(_, _)
SoldTo(ps, i) ==
    IF ps = {} THEN 0
    ELSE LET p == CHOOSE x \in ps : TRUE
         IN (IF Succeeded(p) THEN RequestedBy(p, i) ELSE 0) + SoldTo(ps \ {p}, i)

C4_LockedCheckAndDecrement ==
    \A i \in DOMAIN committed.inventory :
        /\ committed.inventory[i].quantity
              = sess.inventory[i].quantity - SoldTo(Procs, i)
        /\ committed.inventory[i].quantity >= 0
        /\ \A p, q \in Procs :
              (p # q /\ RequestedBy(p, i) + RequestedBy(q, i) > sess.inventory[i].quantity)
                  => ~(Succeeded(p) /\ Succeeded(q))

(* ------------------- claims on users and sessions ------------------- *)
\* the step is a call of `name` (time does not pass during a call)
Called(name) == lastOp'.name = name /\ now' = now

\* the rows of the users table that carry `username`
UserNamed(username) == {u \in DOMAIN sess.users : sess.users[u].username = username}

\* the action a call's audit row is to carry
C6_Action ==
    [n \in {"create_user", "update_user", "update_password", "set_reset_token",
            "update_last_login", "deactivate_user", "reactivate_user"} |->
        IF n = "create_user" THEN "CREATE"
        ELSE IF n = "deactivate_user" THEN "DEACTIVATE"
        ELSE IF n = "reactivate_user" THEN "REACTIVATE"
        ELSE "UPDATE"]

\* C6: every mutation through a DAO writes exactly one AuditLog row whose
\* action, table and record id match the change: a UserDAO call that changed
\* a users row appended one row (action of the call, "users", the row's id).
C6_EveryMutationAudited ==
    [][(lastOp'.name \in DOMAIN C6_Action /\ lastOp'.ok) =>
          /\ Len(sess'.audit_logs) = Len(sess.audit_logs) + 1
          /\ LET row == sess'.audit_logs[Len(sess'.audit_logs)]
             IN /\ row.action = C6_Action[lastOp'.name]
                /\ row.table_name = "users"
                /\ row.record_id = lastOp'.user_id]_vars

\* what C7 says of deactivation, reactivation and authentication
C7_Authentication ==
    /\ \A u \in DOMAIN sess.users :
          sess'.users[u].is_active # sess.users[u].is_active =>
              /\ lastOp'.name \in {"deactivate_user", "reactivate_user"}
              /\ lastOp'.user_id = u
    /\ (Called("deactivate_user") /\ lastOp'.ok) =>
          /\ lastOp'.user_id \in DOMAIN sess'.users
          /\ ~sess'.users[lastOp'.user_id].is_active
    /\ (Called("reactivate_user") /\ lastOp'.ok) =>
          sess'.users[lastOp'.user_id].is_active
    /\ (Called("login") \/ Called("authenticate_user")) =>
          \A u \in UserNamed(lastOp'.username) :
              /\ ~sess.users[u].is_active => ~lastOp'.ok
              /\ (/\ sess.users[u].is_active
                  /\ verify_password(lastOp'.password, SeedUsers[u].password_hash))
                 => lastOp'.ok

\* C7 as stated: after deactivate_user(u) every authentication with u's
\* credentials returns absence, the lookup by id still returns u's row, and
\* reactivate_user(u) makes authentication succeed again.
C7_DeactivatedRowReturnedById ==
    [][/\ C7_Authentication
       /\ (Called("get_user_by_id") /\ lastOp'.user_id \in DOMAIN sess.users)
             => lastOp'.ok]_vars

\* C7 as amended: after deactivate_user(u) every authentication with u's
\* credentials returns absence and u's row stays in the users table with its
\* active flag cleared, but get_user_by_id(u) returns absence (it returns the
\* row exactly when the row is active); reactivate_user(u) makes
\* authentication succeed again.
C7_DeactivatedRowHiddenFromLookup ==
    [][/\ C7_Authentication
       /\ Called("get_user_by_id") =>
             (lastOp'.ok <=> /\ lastOp'.user_id \in DOMAIN sess.users
                             /\ sess.users[lastOp'.user_id].is_active)]_vars

\* a lookup by id has just returned absence for a row that a committed
\* deactivate_user left in the table
C7_Witness ==
    /\ lastOp.name = "get_user_by_id"
    /\ ~lastOp.ok
    /\ lastOp.user_id \in DOMAIN committed.users
    /\ ~committed.users[lastOp.user_id].is_active
    /\ \E k \in 1..Len(committed.audit_logs) :
          /\ committed.audit_logs[k].action = "DEACTIVATE"
          /\ committed.audit_logs[k].record_id = lastOp.user_id

\* C8: a successful login creates a session that validates at once; each
\* successful validation restarts the timeout; once more than the timeout has
\* passed since the login or the last successful validation, validate_session
\* reports invalid and removes the session; with no session it reports that
\* none exists, and only a login creates one.
C8_SessionLifecycle ==
    [][/\ (Called("login") /\ lastOp'.ok) =>
             \A u \in UserNamed(lastOp'.username) :
                 /\ u \in DOMAIN active_sessions'
                 /\ active_sessions'[u].expires_at = now + SESSION_TIMEOUT_MINUTES
       /\ Called("validate_session") =>
             LET u == lastOp'.user_id
             IN IF u \notin DOMAIN active_sessions
                THEN /\ ~lastOp'.ok
                     /\ lastOp'.error = "No active session found"
                     /\ active_sessions' = active_sessions
                ELSE IF now > active_sessions[u].expires_at
                THEN /\ ~lastOp'.ok
                     /\ u \notin DOMAIN active_sessions'
                ELSE /\ lastOp'.ok
                     /\ active_sessions'[u].expires_at =
                           now + SESSION_TIMEOUT_MINUTES
       /\ \A u \in DOMAIN active_sessions' :
             IF u \notin DOMAIN active_sessions
             THEN /\ Called("login")
                  /\ lastOp'.ok
                  /\ u \in UserNamed(lastOp'.username)
             ELSE active_sessions'[u].expires_at # active_sessions[u].expires_at =>
                     /\ lastOp'.name \in {"login", "validate_session",
                                          "check_permission"}
                     /\ active_sessions'[u].expires_at =
                           now + SESSION_TIMEOUT_MINUTES]_vars

\* a validation has just found the session of a logged-in user run out and
\* has removed it
C8_Witness ==
    /\ lastOp.name = "validate_session"
    /\ ~lastOp.ok
    /\ lastOp.error = "Session expired"
    /\ lastOp.user_id \notin DOMAIN active_sessions
    /\ sess.users[lastOp.user_id].last_login # None

\* the weights C9 gives the roles
C9_Weight == [r \in Roles |-> CASE r = "admin" -> 3 [] r = "manager" -> 2
                                [] r = "staff" -> 1]

\* C9: check_permission(u, r) succeeds exactly when u has a session that has
\* not run out and the weight of the session's role is at least the weight
\* of r (admin 3, manager 2, staff 1).
C9_PermissionByWeight ==
    [][Called("check_permission") =>
          LET u == lastOp'.user_id
          IN lastOp'.ok <=>
                /\ u \in DOMAIN active_sessions
                /\ ~(now > active_sessions[u].expires_at)
                /\ C9_Weight[active_sessions[u].role] >=
                      C9_Weight[lastOp'.required_role]]_vars

\* a manager has just been refused what needs an admin
C9_Witness ==
    /\ lastOp.name = "check_permission"
    /\ ~lastOp.ok
    /\ lastOp.error = "Insufficient permissions"
    /\ lastOp.required_role = "admin"
    /\ lastOp.user_id \in DOMAIN active_sessions
    /\ active_sessions[lastOp.user_id].role = "manager"

\* C10: change_user_role(a, t, new_role) by a caller without a valid admin
\* session fails and changes neither a stored role nor the role of a live
\* session; when it succeeds, t's stored role and the role in t's live
\* session, when t has one, are new_role.
C10_RoleChange ==
    [][Called("change_user_role") =>
          LET a == lastOp'.admin_user_id
              t == lastOp'.target_user_id
              valid_admin == /\ a \in DOMAIN active_sessions
                             /\ ~(now > active_sessions[a].expires_at)
                             /\ active_sessions[a].role = "admin"
          IN /\ ~valid_admin =>
                   /\ ~lastOp'.ok
                   /\ sess' = sess
                   /\ committed' = committed
                   /\ \A v \in DOMAIN active_sessions' :
                         /\ v \in DOMAIN active_sessions
                         /\ active_sessions'[v].role = active_sessions[v].role
             /\ lastOp'.ok =>
                   /\ valid_admin
                   /\ t \in DOMAIN committed'.users
                   /\ committed'.users[t].role = lastOp'.new_role
                   /\ sess'.users[t].role = lastOp'.new_role
                   /\ t \in DOMAIN active_sessions =>
                         /\ t \in DOMAIN active_sessions'
                         /\ active_sessions'[t].role = lastOp'.new_role]_vars

\* an admin has just given another logged-in user a role the user did not
\* have, and that user's live session carries it
C10_Witness ==
    /\ lastOp.name = "change_user_role"
    /\ lastOp.ok
    /\ lastOp.target_user_id # lastOp.admin_user_id
    /\ lastOp.target_user_id \in DOMAIN active_sessions
    /\ lastOp.new_role # SeedUsers[lastOp.target_user_id].role
    /\ active_sessions[lastOp.target_user_id].role = lastOp.new_role
    /\ committed.users[lastOp.target_user_id].role = lastOp.new_role

(* ------------------------ claims on registration ---------------------- *)
\* no two rows of a users table share a username or an email
C11_NoSharedNames(s) ==
    \A u, v \in DOMAIN s.users :
        u # v => /\ s.users[u].username # s.users[v].username
                 /\ s.users[u].email # s.users[v].email

\* C11: a register_user call whose username or email is that of an existing
\* users row (active or not) fails and leaves every existing row as it was,
\* and after every register, deactivate, reactivate and profile update no two
\* rows share a username or an email.
C11_UniqueUsers ==
    [][/\ (/\ Called("register_user")
           /\ \E u \in DOMAIN sess.users :
                 \/ sess.users[u].username = lastOp'.username
                 \/ sess.users[u].email = lastOp'.email)
          => /\ ~lastOp'.ok
             /\ sess'.users = sess.users
             /\ committed'.users = committed.users
       /\ C11_NoSharedNames(sess')
       /\ C11_NoSharedNames(committed')]_vars

\* a registration under the username of a deactivated user passed the
\* service's own lookups and was refused by the database
C11_Witness ==
    /\ lastOp.name = "register_user"
    /\ ~lastOp.ok
    /\ lastOp.stage = "commit"
    /\ \E u \in DOMAIN committed.users :
          /\ committed.users[u].username = lastOp.username
          /\ ~committed.users[u].is_active

\* C12: register_user with a well-formed username and email that no row
\* holds and a password that meets the policy commits: one new active row
\* with that username exists, it authenticates with the password, and one
\* AuditLog row (CREATE, users) without acting user records the creation.
C12_RegistrationCommits ==
    [][(/\ Called("register_user")
        /\ validate_username(lastOp'.username)
        /\ validate_email(lastOp'.email)
        /\ validate_password(lastOp'.password)
        /\ \A u \in DOMAIN sess.users :
              /\ sess.users[u].username # lastOp'.username
              /\ sess.users[u].email # lastOp'.email)
       => /\ lastOp'.ok
          /\ \E n \in DOMAIN committed'.users \ DOMAIN committed.users :
                /\ DOMAIN committed'.users = DOMAIN committed.users \cup {n}
                /\ committed'.users[n].username = lastOp'.username
                /\ committed'.users[n].is_active
                /\ verify_password(lastOp'.password,
                                   committed'.users[n].password_hash)
          /\ Len(committed'.audit_logs) = Len(committed.audit_logs) + 1
          /\ LET row == committed'.audit_logs[Len(committed'.audit_logs)]
             IN /\ row.action = "CREATE"
                /\ row.table_name = "users"
                /\ row.user_id = None]_vars

(* ------------------------------- C13 ---------------------------------- *)
RowsNamed(table, column, name) ==
    Cardinality({i \in DOMAIN table : table[i][column] = name})

C13_OneRowEach(s) ==
    /\ RowsNamed(s.users, "username", default_admin.username) = 1
    /\ \A k \in 1..Len(default_categories) :
          RowsNamed(s.categories, "name", default_categories[k].name) = 1
    /\ \A k \in 1..Len(default_inventory) :
          RowsNamed(s.inventory, "name", default_inventory[k].name) = 1

\* C13: every run of initialize_database leaves the stored database with
\* exactly one row for the seeded administrator username, one for each of
\* the eight seeded category names and one for each of the five seeded item
\* names; a run on a database that was initialised before inserts nothing
\* and leaves every table as it was.
C13_InitializeIsIdempotent ==
    [][Called("initialize_database") =>
          /\ lastOp'.ok
          /\ C13_OneRowEach(committed')
          /\ (C13_OneRowEach(committed) =>
                /\ lastOp'.inserted = 0
                /\ committed' = committed)]_vars

\* a second run, on a database whose seeded rows were written to since the
\* first run
C13_Witness ==
    /\ lastOp.name = "initialize_database"
    /\ lastOp.inserted = 0
    /\ Len(committed.audit_logs) = MaxItemChanges
    /\ \E i \in DOMAIN committed.users : ~committed.users[i].is_active
    /\ C13_OneRowEach(committed)

(* ------------------------------- C14 ---------------------------------- *)
\* C14: in the result of get_inventory_status every item is in the low-stock
\* alert list exactly when 0 < quantity <= reorder level, in the
\* out-of-stock alert list exactly when quantity = 0, and in neither list
\* when quantity > reorder level.
C14_AlertLists ==
    lastOp.name = "get_inventory_status" =>
        \A i \in DOMAIN sess.inventory :
            LET item == sess.inventory[i]
            IN /\ i \in lastOp.low_stock_items
                    <=> (0 < item.quantity /\ item.quantity <= item.reorder_level)
               /\ i \in lastOp.out_of_stock_items <=> item.quantity = 0
               /\ item.quantity > item.reorder_level =>
                     /\ i \notin lastOp.low_stock_items
                     /\ i \notin lastOp.out_of_stock_items

(* ------------------------------- C15 ---------------------------------- *)
\* a warning that carries the item's quantity on hand and its reorder level
C15_Carries(w, item) ==
    /\ "quantity" \in DOMAIN w
    /\ w.quantity = item.quantity
    /\ "reorder_level" \in DOMAIN w
    /\ w.reorder_level = item.reorder_level

\* C15: every stock-reducing operation (update_stock with a negative change,
\* each line of a created sale) that leaves the item at or below its reorder
\* level returns a warning carrying the resulting quantity and the reorder
\* level; when the item is left above its reorder level no warning is
\* returned.
C15_LowStockWarning ==
    /\ (lastOp.name = "update_stock" /\ lastOp.ok /\ lastOp.quantity_change < 0) =>
          LET item == committed.inventory[lastOp.item_id]
          IN IF item.quantity <= item.reorder_level
             THEN /\ Len(lastOp.warnings) = 1
                  /\ C15_Carries(lastOp.warnings[1], item)
             ELSE lastOp.warnings = <<>>
    /\ (lastOp.name = "create_sale" /\ lastOp.ok) =>
          \A i \in DOMAIN committed.inventory :
              lastOp.requested[i] > 0 =>
                  LET item == committed.inventory[i]
                  IN IF item.quantity <= item.reorder_level
                     THEN \E k \in 1..Len(lastOp.warnings) :
                              /\ lastOp.warnings[k].item = i
                              /\ C15_Carries(lastOp.warnings[k], item)
                     ELSE \A k \in 1..Len(lastOp.warnings) :
                              lastOp.warnings[k].item # i

(* ------------------------------- C16 ---------------------------------- *)
\* C16: add_inventory_item with valid arguments and starting quantity q > 0
\* commits the new item together with exactly one inventory transaction of
\* type initial and quantity q that references the new item's id; with
\* q = 0 it commits the item and writes no inventory transaction.
C16_InitialTransaction ==
    [][(Called("add_inventory_item") /\ lastOp'.stage = "commit") =>
          LET id == lastOp'.id
              q == lastOp'.quantity
              n == Len(committed.inv_txns)
          IN /\ lastOp'.ok
             /\ id \notin DOMAIN committed.inventory
             /\ id \in DOMAIN committed'.inventory
             /\ committed'.inventory[id].quantity = q
             /\ IF q > 0
                THEN /\ Len(committed'.inv_txns) = n + 1
                     /\ SubSeq(committed'.inv_txns, 1, n) = committed.inv_txns
                     /\ committed'.inv_txns[n + 1].inventory_item_id = id
                     /\ committed'.inv_txns[n + 1].transaction_type = "initial"
                     /\ committed'.inv_txns[n + 1].quantity = q
                ELSE committed'.inv_txns = committed.inv_txns]_vars

(* ------------------------------- C18 ---------------------------------- *)
\* the day an expense is dated, read back from the stored DateTime
C18_DayOf(e) == e.date \div MinutesPerDay

\* C18: for a range with start <= end, get_expense_summary reports as total
\* amount the sum of the amounts of exactly the expenses dated within the
\* range (both ends included) and as transaction count their number; the
\* per-category entries hold, for every category with an expense in the
\* range, one entry with the sum and the count of that category's expenses
\* in the range, and no entry for any other category.
C18_ExpenseSummary ==
    (lastOp.name = "get_expense_summary" /\ lastOp.ok) =>
        LET lo == ParsedDay[lastOp.start_date]
            hi == ParsedDay[lastOp.end_date]
            InRange == {e \in sess.expenses :
                            lo <= C18_DayOf(e) /\ C18_DayOf(e) <= hi}
        IN /\ lastOp.total_amount = SumOf(InRange, "amount")
           /\ lastOp.total_transactions = Cardinality(InRange)
           /\ \A c \in DOMAIN sess.categories :
                 LET mine == {e \in InRange : e.category_id = c}
                     entries == {x \in lastOp.by_category :
                                    x.category = sess.categories[c].name}
                 IN IF mine = {}
                    THEN entries = {}
                    ELSE entries = {[category |-> sess.categories[c].name,
                                     total_amount |-> SumOf(mine, "amount"),
                                     transaction_count |-> Cardinality(mine)]}
           /\ \A x \in lastOp.by_category :
                 \E c \in DOMAIN sess.categories : sess.categories[c].name = x.category

\* a summary of a one-day range that takes in an expense dated on the last
\* day of the range and leaves out an expense dated the day after
C18_Witness ==
    /\ lastOp.name = "get_expense_summary"
    /\ lastOp.ok
    /\ lastOp.start_date = "2024-01-01"
    /\ lastOp.end_date = "2024-01-01"
    /\ lastOp.total_transactions = 1
    /\ lastOp.total_amount = 100
    /\ \E e \in sess.expenses : C18_DayOf(e) = 2 /\ e.amount = 200
    /\ Cardinality(lastOp.by_category) = 1

(* ------------------------------- C17 ---------------------------------- *)
C17_ServiceWrites ==
    {"register_user", "change_password", "reset_password",
     "update_user_profile", "record_expense", "update_expense",
     "add_inventory_item", "update_stock", "create_sale"}

\* the stages at which a call is refused for what it was given, as against a
\* commit the database refuses
C17_RejectionStages == {"validation", "exists", "missing", "service", "dao"}

\* C17: whenever a service write operation rejects its input as invalid, the
\* error is raised before any database write: the stored tables and the
\* shared session's view of them (stored rows plus pending changes) are the
\* same after the call as before it.
C17_RejectionWritesNothing ==
    [][(/\ lastOp'.name \in C17_ServiceWrites
        /\ now' = now
        /\ ~lastOp'.ok
        /\ lastOp'.stage \in C17_RejectionStages) =>
          /\ sess' = sess
          /\ committed' = committed]_vars

(* ------------------------------- C19 ---------------------------------- *)
\* C19: at most one ServiceProvider instance is ever constructed in a
\* process; get_instance always returns that same instance, and a direct
\* construction after the first instance exists raises, whether or not
\* get_instance was called before.
C19_Singleton ==
    /\ Len(provider.constructed) <= 1
    /\ (lastOp.name = "get_instance" => lastOp.instance = 1)
    /\ (lastOp.name = "ServiceProvider" /\ lastOp.ok => lastOp.instance = 1)

(* ------------------------------- C20 ---------------------------------- *)
\* revenue of an item over the sale lines on record
C20_Revenue(i) == SumSet({si \in sess.sale_items : si.inventory_item_id = i})

\* C20: the top-selling-items report for a period (two well-formed dates)
\* is returned, has one entry for every item sold, and lists the entries in
\* descending order of revenue (sum of quantity x unit price over the sale
\* lines), whatever the quantities sold.
C20_TopSellingByRevenue ==
    (/\ lastOp.name = "get_top_selling_items"
     /\ validate_date(lastOp.start_date)
     /\ validate_date(lastOp.end_date)) =>
        /\ lastOp.ok
        /\ \A i \in DOMAIN sess.inventory :
              C20_Revenue(i) > 0 =>
                  \E k \in 1..Len(lastOp.items) :
                      /\ lastOp.items[k].name = sess.inventory[i].name
                      /\ lastOp.items[k].revenue = C20_Revenue(i)
        /\ \A k, l \in 1..Len(lastOp.items) :
              k < l => lastOp.items[k].revenue >= lastOp.items[l].revenue

(* ------------------------------- C21 ---------------------------------- *)
\* C21: verify_password accepts a password against a value hash_password
\* made of it and refuses every other password; two calls of hash_password,
\* of the same password too, return different stored values, each of which
\* verifies against its password.
C21_HashAndVerify ==
    /\ \A k \in 1..Len(HashCalls) :
          /\ verify_password(HashCalls[k].password, HashCalls[k].stored)
          /\ \A other \in PasswordTexts :
                other # HashCalls[k].password =>
                    ~verify_password(other, HashCalls[k].stored)
    /\ \A j, k \in 1..Len(HashCalls) :
          j # k => HashCalls[j].stored # HashCalls[k].stored
    /\ lastOp.name = "verify_password" =>
          (lastOp.result <=> lastOp.password = HashCalls[lastOp.against].password)

\* one password hashed twice, and another password refused against the
\* second stored value
C21_Witness ==
    /\ lastOp.name = "verify_password"
    /\ Len(HashCalls) = 2
    /\ HashCalls[1].password = HashCalls[2].password
    /\ HashCalls[1].stored # HashCalls[2].stored
    /\ lastOp.against = 2
    /\ lastOp.password # HashCalls[2].password
    /\ ~lastOp.result

(* ---------- C22 ---------- *)

\* the calls of C22 and the table and argument each one looks its row up by
C22_Lookups ==
    [update_user |-> [table |-> "users", arg |-> "user_id"],
     update_password |-> [table |-> "users", arg |-> "user_id"],
     deactivate_user |-> [table |-> "users", arg |-> "user_id"],
     update_expense |-> [table |-> "expenses", arg |-> "expense_id"],
     delete_expense |-> [table |-> "expenses", arg |-> "expense_id"],
     update_quantity |-> [table |-> "inventory", arg |-> "item_id"],
     update_item |-> [table |-> "inventory", arg |-> "item_id"],
     void_sale |-> [table |-> "sales", arg |-> "sale_id"]]

\* the ids of the rows the session sees in a table
C22_IdsIn(table) ==
    IF table \in {"users", "inventory"} THEN DOMAIN sess[table]
    ELSE Ids(sess[table])

\* the call just made names an id with no row in its table
C22_Missing ==
    /\ now' = now
    /\ lastOp'.name \in DOMAIN C22_Lookups
    /\ lastOp'[C22_Lookups[lastOp'.name].arg]
           \notin C22_IdsIn(C22_Lookups[lastOp'.name].table)

\* C22: a DAO mutation addressed to an id with no matching row returns
\* nothing or false, writes no AuditLog row and leaves every table
\* unchanged; voiding a sale straight after it was voided returns false and
\* restores no inventory.
C22_MissingRowIsNoOp ==
    [][/\ C22_Missing
          => /\ ~lastOp'.ok
             /\ sess' = sess
             /\ committed' = committed
       /\ (/\ Called("void_sale")
           /\ lastOp.name = "void_sale"
           /\ lastOp.ok
           /\ lastOp'.sale_id = lastOp.sale_id)
          => /\ ~lastOp'.ok
             /\ sess'.inventory = sess.inventory
             /\ committed'.inventory = committed.inventory]_vars

\* a sale that was voided (its VOID audit row is stored) has just been
\* voided again and the call returned false
C22_Witness ==
    /\ lastOp.name = "void_sale"
    /\ ~lastOp.ok
    /\ lastOp.sale_id \notin Ids(sess.sales)
    /\ \E k \in 1..Len(committed.audit_logs) :
          /\ committed.audit_logs[k].action = "VOID"
          /\ committed.audit_logs[k].record_id = lastOp.sale_id

(* ---------- C23 ---------- *)

\* the call just made passed the session check of validate_session
C23_PassedSessionCheck ==
    /\ now' = now
    /\ \/ lastOp'.name = "validate_session" /\ lastOp'.ok
       \/ /\ lastOp'.name = "check_permission"
          /\ lastOp'.error \in {NoText, "Insufficient permissions"}

\* C23: every validate_session that succeeds, and every check_permission
\* that passes the session check, sets the session's expiry to the current
\* time plus the timeout; and a session touched no longer than the timeout
\* ago (its expiry not yet passed) is not reported expired and stays in the
\* map, however long ago the login was.
C23_SlidingExpiry ==
    [][/\ C23_PassedSessionCheck
          => /\ lastOp'.user_id \in DOMAIN active_sessions'
             /\ active_sessions'[lastOp'.user_id].expires_at =
                    now + SESSION_TIMEOUT_MINUTES
             /\ active_sessions'[lastOp'.user_id].created_at =
                    active_sessions[lastOp'.user_id].created_at
       /\ (/\ now' = now
           /\ lastOp'.name \in {"validate_session", "check_permission"}
           /\ lastOp'.user_id \in DOMAIN active_sessions
           /\ now <= active_sessions[lastOp'.user_id].expires_at)
          => /\ lastOp'.error # "Session expired"
             /\ lastOp'.error # "No active session found"
             /\ lastOp'.user_id \in DOMAIN active_sessions']_vars

\* a session is found valid although the login lies more than the timeout
\* back: it was kept alive by a validation in between
C23_Witness ==
    /\ lastOp.name = "validate_session"
    /\ lastOp.ok
    /\ lastOp.user_id \in DOMAIN active_sessions
    /\ now > active_sessions[lastOp.user_id].created_at + SESSION_TIMEOUT_MINUTES
    /\ active_sessions[lastOp.user_id].expires_at = now + SESSION_TIMEOUT_MINUTES

(* ---------- C24 ---------- *)

\* the user's row holds no reset token in the session and in the database
C24_TokenCleared(s, u) ==
    /\ s.users[u].reset_token = NoText
    /\ s.users[u].reset_token_expiry = None

\* C24: reset_password accepts a token only while an active user's row
\* stores that token with an expiry later than the current time; a
\* successful reset_password or change_password leaves the user's row
\* without token and expiry; the token such a call cleared is refused when
\* it is presented again.
C24_ResetTokenOnce ==
    [][/\ (Called("reset_password") /\ lastOp'.ok)
          => \E u \in DOMAIN sess.users :
                /\ u = lastOp'.user_id
                /\ sess.users[u].is_active
                /\ sess.users[u].reset_token = lastOp'.reset_token
                /\ sess.users[u].reset_token_expiry > now
       /\ (/\ now' = now
           /\ lastOp'.name \in {"reset_password", "change_password"}
           /\ lastOp'.ok)
          => /\ C24_TokenCleared(sess', lastOp'.user_id)
             /\ C24_TokenCleared(committed', lastOp'.user_id)
       /\ (/\ Called("reset_password")
           /\ lastOp.name \in {"reset_password", "change_password"}
           /\ lastOp.ok
           /\ lastOp.cleared # NoText
           /\ lastOp'.reset_token = lastOp.cleared)
          => ~lastOp'.ok]_vars

\* a token that reset a password has been presented again and refused
C24_Witness ==
    /\ lastOp.name = "reset_password"
    /\ lastOp.again
    /\ ~lastOp.ok
    /\ lastOp.stage = "token"
    /\ \E u \in ResetUsers, t \in IssueTimes :
          /\ ResetToken(u, t) = lastOp.reset_token
          /\ committed.users[u].password_hash = hash_of("Password1", "salt-r")

(* ---------- C25 ---------- *)

\* C25: a get_expense_summary called with a category_id counts only the
\* expenses of that category: its totals and its per-category list cover
\* the expenses of the range that belong to the category and no others.
C25_SummaryOfOneCategory ==
    (/\ lastOp.name = "get_expense_summary"
     /\ lastOp.ok
     /\ lastOp.category_id # None) =>
        LET lo == ParsedDay[lastOp.start_date]
            hi == ParsedDay[lastOp.end_date]
            mine == {e \in sess.expenses :
                        /\ lo <= C18_DayOf(e) /\ C18_DayOf(e) <= hi
                        /\ e.category_id = lastOp.category_id}
        IN /\ lastOp.total_amount = SumOf(mine, "amount")
           /\ lastOp.total_transactions = Cardinality(mine)
           /\ \A x \in lastOp.by_category :
                 x.category = sess.categories[lastOp.category_id].name

(* ---------- C26 ---------- *)

\* C26: update_quantity changes an item's last-restocked timestamp only
\* when the transaction type is restock and the delta is positive; a call
\* of any other type, or with a delta of zero or less, leaves every item's
\* timestamp as it was.
C26_RestockOnlyStamps ==
    [][(Called("update_quantity") /\ lastOp'.ok) =>
          \A i \in DOMAIN sess.inventory :
              sess'.inventory[i].last_restocked # sess.inventory[i].last_restocked
                  => /\ i = lastOp'.item_id
                     /\ lastOp'.transaction_type = "restock"
                     /\ lastOp'.quantity_change > 0]_vars

(* ---------- C27 ---------- *)

\* C27: in every state reached through add_inventory_item, update_stock,
\* create_sale and void_sale every inventory item's quantity is zero or
\* more, in the session and in the database.
C27_QuantityNeverNegative ==
    /\ \A i \in DOMAIN sess.inventory : sess.inventory[i].quantity >= 0
    /\ \A i \in DOMAIN committed.inventory : committed.inventory[i].quantity >= 0

(* ---------- C28 ---------- *)

\* the sum of the signed deltas of the item's InventoryTransaction rows
C28_Ledger(s, i) == QtyFor(s.inv_txns, i, Len(s.inv_txns))

\* the item's stored quantity; nothing before the item exists
C28_OnHand(s, i) == IF i \in DOMAIN s.inventory THEN s.inventory[i].quantity ELSE 0

\* C28: every change of an item's stored quantity (the initial stock of
\* create_item, update_quantity, the decrement of a sale, the restoration of
\* a void) comes with InventoryTransaction rows of the same signed delta, so
\* that the quantity of an item created through create_item always equals
\* the sum of its transaction rows.
C28_LedgerFollowsQuantity ==
    [][\A i \in DOMAIN committed'.inventory :
          C28_OnHand(committed', i) - C28_OnHand(committed, i)
              = C28_Ledger(committed', i) - C28_Ledger(committed, i)]_vars

(* ---------- C29 ---------- *)

\* C29: a deactivated user holds no usable session: no validate_session
\* and no check_permission succeeds for a user whose row is deactivated,
\* also when the user was logged in at the moment of the deactivation.
C29_NoSessionForDeactivated ==
    (/\ lastOp.name \in {"validate_session", "check_permission"}
     /\ lastOp.ok)
        => sess.users[lastOp.user_id].is_active

(* ---------- C30 ---------- *)

\* C30: in every reachable state the role held in a user's live session is
\* the role stored on that user's row, after any sequence of login,
\* change_user_role and update_user_profile.
C30_SessionRoleIsRowRole ==
    \A u \in DOMAIN active_sessions :
        /\ u \in DOMAIN sess.users
        /\ active_sessions[u].role = sess.users[u].role

====
